---------------------------- MODULE Spec2Model ----------------------------
(***************************************************************************)
(* A model of the asr_mp decoding pipeline:                                *)
(*   - dem_utils.dem_to_matrices       (the Matrix Builder)                *)
(*   - decoder.ASRMPDecoder            (message-passing single-shot path)  *)
(*   - union_find_decoder.UnionFindDecoder (clustering single-shot path)   *)
(*   - decode_shots_bit_packed of both compiled wrappers (batched path)    *)
(*   - dem_utils.get_channel_llrs      (prior to log-likelihood ratio)     *)
(*   - noise_models.generate_stress_circuit / generate_standard_circuit    *)
(*   - the imports of the package's modules                                *)
(* Indices of detectors, observables, matrix rows and columns are 0-based  *)
(* as in the Python source; TLA+ sequences are 1-based, so bit i of a      *)
(* vector v is v[i + 1].                                                   *)
(***************************************************************************)
EXTENDS Integers, Sequences, FiniteSets, TLC

VARIABLES
    dem,        \* the stim.DetectorErrorModel the run is about
    built,      \* the value returned by dem_to_matrices (SpecDem only)
    pc,         \* "start" before / "built" after dem_to_matrices (SpecDem)
    variant,    \* "MP" (ASRMPDecoder) or "UF" (UnionFindDecoder)
    H,          \* self.H      (ASRMPDecoder)
    L,          \* self.L      (ASRMPDecoder)
    priors,     \* self.priors (ASRMPDecoder)
    latencies,  \* self.latencies, the latency log
    solver,     \* self._solver of UnionFindDecoder: created flag and defect set
    oracle,     \* what the external solver has answered so far, per defect set
    lastOp,     \* the operation that ran last, with its input
    result,     \* what that operation returned or raised
    shotLog,    \* per single-shot call of the last operation: syndrome, correction
    calls,      \* single-shot decode calls that returned since the last reset
    resets,     \* reset_latencies calls so far
    current,    \* which compiled instance the variables above belong to
    logRef,     \* the list object self.latencies of that instance refers to
    others,     \* the other compiled instances of the run, by instance
    installed,  \* the external libraries the interpreter can import
    sysModules, \* sys.modules: the asr_mp modules loaded so far
    attempt,    \* the last import-and-construct statement and how it ended
    probs,      \* the priors array handed to get_channel_llrs
    llrs,       \* what get_channel_llrs returned for it
    args,       \* the arguments of a circuit generator call
    circuit,    \* the circuit that call returned
    returned    \* the task lists the calls of a task generator returned, in call order

demVars == <<dem, built, pc>>
decVars == <<variant, H, L, priors, latencies, solver, oracle, lastOp, result, shotLog,
            calls, resets>>
importVars == <<installed, sysModules, attempt>>
llrVars == <<probs, llrs>>
synthVars == <<args, circuit, returned>>
vars == <<dem, built, pc, variant, H, L, priors, latencies, solver, oracle,
          lastOp, result, shotLog, calls, resets, current, logRef, others,
          importVars, llrVars, synthVars>>

-----------------------------------------------------------------------------
(* Bounds of the model *)

MaxInstr == 3       \* instructions per error model in SpecDem
MaxShots == 2       \* rows per packed batch
MaxCalls == 2       \* single-shot decode calls per run, or between two resets
MaxResets == 1      \* reset_latencies calls per run

(* np.uint8: the dtype of H, L, the packed bytes and the predictions *)
Uint8Mod == 256
BitsPerByte == 8

-----------------------------------------------------------------------------
(* Small arithmetic helpers *)

Max(S) == CHOOSE x \in S : \A y \in S : y <= x

RECURSIVE Pow2(_)
Pow2(n) == IF n = 0 THEN 1 ELSE 2 * Pow2(n - 1)

RECURSIVE SumTo(_, _)
\* sum of f[1] .. f[n]
SumTo(f, n) == IF n = 0 THEN 0 ELSE f[n] + SumTo(f, n - 1)

CeilDiv8(n) == (n + 7) \div 8

-----------------------------------------------------------------------------
(* stim.DetectorErrorModel: a sequence of instructions.  A target is a      *)
(* relative detector id (kind "D"), a logical observable id (kind "L") or   *)
(* a separator "^" (kind "sep").                                            *)

D(k) == [kind |-> "D", val |-> k]
Lo(k) == [kind |-> "L", val |-> k]
Sep == [kind |-> "sep", val |-> 0]

ErrorInstr(p, ts) == [type |-> "error", arg |-> p, targets |-> ts]
DetectorInstr(k) == [type |-> "detector", arg |-> 0, targets |-> <<D(k)>>]
ObservableInstr(k) == [type |-> "logical_observable", arg |-> 0, targets |-> <<Lo(k)>>]
ShiftInstr(k) == [type |-> "shift_detectors", arg |-> k, targets |-> <<>>]

ShiftTargets(ts, off) ==
    [j \in 1..Len(ts) |->
        IF ts[j].kind = "D" THEN D(ts[j].val + off) ELSE ts[j]]

RECURSIVE FlattenFrom(_, _, _)
FlattenFrom(d, i, off) ==
    IF i > Len(d) THEN <<>>
    ELSE IF d[i].type = "shift_detectors"
         THEN FlattenFrom(d, i + 1, off + d[i].arg)
         ELSE <<[d[i] EXCEPT !.targets = ShiftTargets(@, off)]>>
              \o FlattenFrom(d, i + 1, off)

\* dem.flattened(): shifts folded into absolute detector ids
Flattened(d) == FlattenFrom(d, 1, 0)

TargetVals(d, kind) ==
    LET f == Flattened(d)
    IN UNION {{f[i].targets[j].val :
                 j \in {k \in 1..Len(f[i].targets) : f[i].targets[k].kind = kind}} :
              i \in 1..Len(f)}

\* dem.num_detectors / dem.num_observables: one more than the largest id used
NumDetectors(d) ==
    LET S == TargetVals(d, "D") IN IF S = {} THEN 0 ELSE Max(S) + 1
NumObservables(d) ==
    LET S == TargetVals(d, "L") IN IF S = {} THEN 0 ELSE Max(S) + 1

-----------------------------------------------------------------------------
(* dem_utils.dem_to_matrices *)

\* t.is_relative_detector_id()
IsRelativeDetectorId(t) == t.kind = "D"
\* "else" in place of "elif t.is_logical_observable_id()"
IsSeparatorOrObservable(t) == t.kind # "D"
\* t.is_logical_observable_id()
IsLogicalObservableId(t) == t.kind = "L"

\* col_idx += 1 outside the "if", for every instruction
AdvanceColAlways(instr, col_idx) == col_idx + 1
\* col_idx after one instruction of the loop
AdvanceCol(instr, col_idx) ==
    IF instr.type = "error" THEN col_idx + 1 ELSE col_idx

EmptyAcc ==
    [col_idx |-> 0,
     row_inds_H |-> <<>>, col_inds_H |-> <<>>,
     row_inds_L |-> <<>>, col_inds_L |-> <<>>,
     priors |-> <<>>]

RECURSIVE ScanTargets(_, _, _)
\* for t in targets: ...
ScanTargets(ts, j, acc) ==
    IF j > Len(ts) THEN acc
    ELSE LET t == ts[j]
             nxt == IF IsRelativeDetectorId(t)
                    THEN [acc EXCEPT !.row_inds_H = Append(@, t.val),
                                     !.col_inds_H = Append(@, acc.col_idx)]
                    ELSE IF IsLogicalObservableId(t)
                    THEN [acc EXCEPT !.row_inds_L = Append(@, t.val),
                                     !.col_inds_L = Append(@, acc.col_idx)]
                    ELSE acc
         IN ScanTargets(ts, j + 1, nxt)

RECURSIVE ScanInstructions(_, _, _)
\* for instruction in dem.flattened(): ...
ScanInstructions(flat, i, acc) ==
    IF i > Len(flat) THEN acc
    ELSE LET instr == flat[i]
             body == IF instr.type = "error"
                     THEN ScanTargets(instr.targets, 1,
                                      [acc EXCEPT !.priors = Append(@, instr.arg)])
                     ELSE acc
         IN ScanInstructions(flat, i + 1,
                             [body EXCEPT !.col_idx = AdvanceCol(instr, @)])

NoMatrix == [shape |-> <<0, 0>>, data |-> <<>>]

\* a builder that refuses a matrix without columns
CscMatrixNoEmpty(rows, cols, nrows, ncols) ==
    IF ncols = 0 \/ \E k \in 1..Len(rows) :
            ~(rows[k] \in 0..(nrows - 1) /\ cols[k] \in 0..(ncols - 1))
    THEN [ok |-> FALSE, m |-> NoMatrix]
    ELSE [ok |-> TRUE,
          m |-> [shape |-> <<nrows, ncols>>,
                 data |-> [r \in 0..(nrows - 1) |-> [c \in 0..(ncols - 1) |->
                     Cardinality({k \in 1..Len(rows) : rows[k] = r /\ cols[k] = c})
                         % Uint8Mod]]]]

\* scipy.sparse.csc_matrix((ones, (rows, cols)), shape=..., dtype=np.uint8):
\* an index outside the shape raises; the entries of one (row, col) pair are
\* summed, in uint8.
CscMatrix(rows, cols, nrows, ncols) ==
    IF \E k \in 1..Len(rows) :
            ~(rows[k] \in 0..(nrows - 1) /\ cols[k] \in 0..(ncols - 1))
    THEN [ok |-> FALSE, m |-> NoMatrix]
    ELSE [ok |-> TRUE,
          m |-> [shape |-> <<nrows, ncols>>,
                 data |-> [r \in 0..(nrows - 1) |-> [c \in 0..(ncols - 1) |->
                     Cardinality({k \in 1..Len(rows) : rows[k] = r /\ cols[k] = c})
                         % Uint8Mod]]]]

dem_to_matrices(d) ==
    LET acc == ScanInstructions(Flattened(d), 1, EmptyAcc)
        num_errors == acc.col_idx
        Hm == CscMatrix(acc.row_inds_H, acc.col_inds_H, NumDetectors(d), num_errors)
        Lm == CscMatrix(acc.row_inds_L, acc.col_inds_L, NumObservables(d), num_errors)
    IN IF Hm.ok /\ Lm.ok
       THEN [kind |-> "ok", H |-> Hm.m, L |-> Lm.m, priors |-> acc.priors]
       ELSE [kind |-> "error", H |-> NoMatrix, L |-> NoMatrix, priors |-> <<>>]

IsError(instr) == instr.type = "error"

RECURSIVE LoopInds(_, _, _, _)
\* what the loop of dem_to_matrices appends to row_inds_* (rows) or to
\* col_inds_* (~rows) for the targets that are observables (obs) or detectors
\* (~obs) of the error instructions errs[i], errs[i + 1], ...: one instruction
\* at a time instead of one target at a time
LoopInds(errs, i, obs, rows) ==
    IF i > Len(errs) THEN <<>>
    ELSE [k \in 1..Len(IF obs
                       THEN SelectSeq(errs[i].targets, IsLogicalObservableId)
                       ELSE SelectSeq(errs[i].targets, IsRelativeDetectorId)) |->
             IF rows
             THEN (IF obs THEN SelectSeq(errs[i].targets, IsLogicalObservableId)
                   ELSE SelectSeq(errs[i].targets, IsRelativeDetectorId))[k].val
             ELSE i - 1]
         \o LoopInds(errs, i + 1, obs, rows)

\* dem_to_matrices for error models whose instructions have hundreds of
\* targets: the same index lists, handed to the same matrix builder
MatricesOf(d) ==
    [H |-> CscMatrix(LoopInds(SelectSeq(Flattened(d), IsError), 1, FALSE, TRUE),
                     LoopInds(SelectSeq(Flattened(d), IsError), 1, FALSE, FALSE),
                     NumDetectors(d), Len(SelectSeq(Flattened(d), IsError))).m,
     L |-> CscMatrix(LoopInds(SelectSeq(Flattened(d), IsError), 1, TRUE, TRUE),
                     LoopInds(SelectSeq(Flattened(d), IsError), 1, TRUE, FALSE),
                     NumObservables(d), Len(SelectSeq(Flattened(d), IsError))).m,
     priors |-> [i \in 1..Len(SelectSeq(Flattened(d), IsError)) |->
                    SelectSeq(Flattened(d), IsError)[i].arg]]

-----------------------------------------------------------------------------
(* The error models dem_to_matrices is run on.  Probabilities are written   *)
(* in thousandths; each instruction below carries a different one.          *)

InstrChoices ==
    { ErrorInstr(1, <<D(0)>>),
      ErrorInstr(2, <<D(0), D(1), Lo(0)>>),
      ErrorInstr(3, <<D(1), Sep, D(1)>>),
      ErrorInstr(4, <<D(0), Lo(0), Sep, D(1), Lo(0)>>),
      ErrorInstr(5, <<Lo(1)>>),
      DetectorInstr(2),
      ObservableInstr(1),
      ShiftInstr(1) }

DemInputs == UNION {[1..n -> InstrChoices] : n \in 0..MaxInstr}

NoResult == [kind |-> "none", H |-> NoMatrix, L |-> NoMatrix, priors |-> <<>>]

NoPacked == [shape |-> <<0, 0>>, rows |-> <<>>]
NoOp == [op |-> "none", syndrome |-> <<>>, data |-> NoPacked]
NoOutcome == [kind |-> "none", error |-> "", value |-> <<>>, packed |-> NoPacked]

\* the external libraries the package's modules import
Libs == {"numpy", "scipy", "stim", "sinter", "ldpc", "fusion_blossom"}
Variants == {"MP", "UF"}
\* per decoder variant, how importing and constructing it ended
NoAttempt == [stage |-> "none", error |-> "", missing |-> ""]
NoAttempts == [v \in Variants |-> NoAttempt]
NoLlrs == [kind |-> "none", value |-> <<>>]
NoArgs == [fn |-> "none", d |-> 0, base_p |-> 0, drift_strength |-> 0,
           burst_prob |-> 0, rounds |-> 0]

\* the import state, the log-likelihood conversion and the circuit
\* generators while the specification at hand is about none of them: all
\* libraries installed, nothing loaded yet, no call made
ImportIdle == installed = Libs /\ sysModules = {} /\ attempt = NoAttempts
LlrIdle == probs = <<>> /\ llrs = NoLlrs
SynthIdle == args = NoArgs /\ circuit = <<>> /\ returned = <<>>

\* the decoder's variables, unused while only the Matrix Builder runs
DecoderIdle ==
    /\ variant = "MP"
    /\ H = NoMatrix
    /\ L = NoMatrix
    /\ priors = <<>>
    /\ latencies = <<>>
    /\ solver = [created |-> FALSE, defects |-> {}]
    /\ oracle = <<>>
    /\ lastOp = NoOp
    /\ result = NoOutcome
    /\ shotLog = <<>>
    /\ calls = 0
    /\ resets = 0
    /\ current = 1
    /\ logRef = 1
    /\ others = <<>>

InitDem ==
    /\ dem \in DemInputs
    /\ built = NoResult
    /\ pc = "start"
    /\ DecoderIdle
    /\ ImportIdle
    /\ LlrIdle
    /\ SynthIdle

BuildMatrices ==
    /\ pc = "start"
    /\ built' = dem_to_matrices(dem)
    /\ pc' = "built"
    /\ UNCHANGED <<importVars, llrVars, synthVars,
                   dem, variant, H, L, priors, latencies, solver, oracle,
                   lastOp, result, shotLog, calls, resets, current, logRef, others>>

NextDem == BuildMatrices

SpecDem == InitDem /\ [][NextDem]_vars

-----------------------------------------------------------------------------
(* Bit packing: np.unpackbits / np.packbits with bitorder="little".  A      *)
(* packed array is [shape |-> <<rows, bytes per row>>, rows |-> the rows].   *)

\* bitorder="big" instead: bit j of a byte weighs 2^(7 - j)
BitWeightBig(j) == Pow2(BitsPerByte - 1 - j)
\* bitorder="little": bit j of a byte weighs 2^j
BitWeight(j) == Pow2(j)

\* the shifted byte tested for truth without masking its low bit
UnpackedBitNoMask(byte, j) == IF byte \div BitWeight(j) > 0 THEN 1 ELSE 0
\* bit j of a byte
UnpackedBit(byte, j) == (byte \div BitWeight(j)) % 2

\* np.unpackbits(row, count=count, bitorder="little") of one row: exactly
\* count bits; bits past the end of the row are zero padding, bits of the row
\* past count are dropped
UnpackBits(row, count) ==
    [k \in 1..count |->
        IF (k - 1) \div BitsPerByte < Len(row)
        THEN UnpackedBit(row[(k - 1) \div BitsPerByte + 1], (k - 1) % BitsPerByte)
        ELSE 0]

\* m // 8 instead: a last, partly used byte is lost
PackedWidthFloor(m) == m \div BitsPerByte
\* bytes per packed row of m bits
PackedWidth(m) == CeilDiv8(m)

RECURSIVE PackByte(_, _, _)
\* byte b of the packed row: the sum of the weights of its nonzero bits
PackByte(bits, b, j) ==
    IF j = BitsPerByte THEN 0
    ELSE (IF b * BitsPerByte + j < Len(bits) /\ bits[b * BitsPerByte + j + 1] # 0
          THEN BitWeight(j) ELSE 0)
         + PackByte(bits, b, j + 1)

\* np.packbits(bits, bitorder="little") of one row
PackBits(bits) == [b \in 1..PackedWidth(Len(bits)) |-> PackByte(bits, b - 1, 0)]

-----------------------------------------------------------------------------
(* The external solvers.  Their algorithms are outside the repository: a    *)
(* solver is a deterministic function of the defect set it is given, and    *)
(* oracle records the part of that function the run has asked for so far.   *)

\* np.where(syndrome)[0]: the 0-based indices of the nonzero entries
Support(s) == {i \in 0..(Len(s) - 1) : s[i + 1] # 0}

BitVectors(n) == [1..n -> {0, 1}]
\* bit vectors of length n that are zero except perhaps at the two ends
EndVectors(n) ==
    {[i \in 1..n |-> IF (i = 1 /\ a = 1) \/ (i = n /\ b = 1) THEN 1 ELSE 0] :
        a \in {0, 1}, b \in {0, 1}}

\* the all-zero vector of length n, and the one with only its last bit set
LastBitVectors(n) == {[i \in 1..n |-> IF i = n THEN b ELSE 0] : b \in {0, 1}}

\* the solver raising an error of its own in place of an answer
Failure == <<2>>

\* what one solve can answer: any error estimate (MP); no observable or the
\* last observable flipped (UF); in the runs with a
\* faulty solver (pc = "faulty") also no answer but an error
Answers ==
    (IF variant = "MP" THEN BitVectors(H.shape[2])
     ELSE LastBitVectors(NumObservables(dem)))
    \cup (IF pc = "faulty" THEN {Failure} ELSE {})

Extend(orc, ext) ==
    [k \in DOMAIN orc \cup DOMAIN ext |-> IF k \in DOMAIN orc THEN orc[k] ELSE ext[k]]

\* the all-zero vector of length n
Quiet(n) == [i \in 1..n |-> 0]

\* the solver's answer of length n for a defect set: with no defect at all
\* both solvers answer all zero (ldpc returns the zero estimate for a zero
\* syndrome without iterating; a matching of no defects flips no observable,
\* tests/test_decoder.py test_decode_zero_syndrome); otherwise the answer is
\* the solver's own
SolverAnswer(orc, key, n) == IF key = {} THEN Quiet(n) ELSE orc[key]

-----------------------------------------------------------------------------
(* decoder.ASRMPDecoder.  self is [latencies, solver]; H, L, priors are set *)
(* once by __init__ and never assigned again.                               *)

Ok(self, v) == [self |-> self, raised |-> FALSE, error |-> "", value |-> v]
Raise(self, e) == [self |-> self, raised |-> TRUE, error |-> e, value |-> <<>>]

\* self.bpd.decode(syndrome): ldpc's BpOsdDecoder rejects a syndrome whose
\* length is not the number of rows of H
BpdDecode(orc, syndrome) ==
    IF Len(syndrome) # H.shape[1]
    THEN Raise(<<>>, "ValueError")
    ELSE IF SolverAnswer(orc, Support(syndrome), H.shape[2]) = Failure
    THEN Raise(<<>>, "SolverError")
    ELSE Ok(<<>>, SolverAnswer(orc, Support(syndrome), H.shape[2]))

\* the latency logged whether the solver returned or raised
LogDecodeAlways(self, r, dt) ==
    IF r.raised THEN Raise([self EXCEPT !.latencies = Append(@, dt)], r.error)
    ELSE Ok([self EXCEPT !.latencies = Append(@, dt)], r.value)

LogDecode(self, r, dt) ==
    IF r.raised THEN Raise(self, r.error)
    ELSE Ok([self EXCEPT !.latencies = Append(@, dt)], r.value)

\* ASRMPDecoder.decode: the latency is logged after the solver returned
MPDecode(self, orc, syndrome, dt) ==
    LogDecode(self, BpdDecode(orc, syndrome), dt)

\* self.L @ estimated_error, in uint8, without the reduction modulo 2
LogicalOfNoMod(estimate) ==
    [o \in 1..L.shape[1] |->
        SumTo([j \in 1..L.shape[2] |-> L.data[o - 1][j - 1] * estimate[j]],
              L.shape[2]) % Uint8Mod]
\* (self.L @ estimated_error) % 2, in uint8
LogicalOf(estimate) ==
    [o \in 1..L.shape[1] |->
        (SumTo([j \in 1..L.shape[2] |-> L.data[o - 1][j - 1] * estimate[j]],
               L.shape[2]) % Uint8Mod) % 2]

CorrectionOf(r) == IF r.raised THEN r ELSE Ok(r.self, LogicalOf(r.value))

\* ASRMPDecoder.get_logical_correction
MPGetLogicalCorrection(self, orc, syndrome, dt) ==
    CorrectionOf(MPDecode(self, orc, syndrome, dt))

-----------------------------------------------------------------------------
(* union_find_decoder.UnionFindDecoder *)

\* self._get_solver(): the handle is created on first use
GetSolver(sv) == IF sv.created THEN sv ELSE [created |-> TRUE, defects |-> {}]
\* the defects of the previous call left in the solver
SolverKeep(sv) == sv
\* solver.clear()
SolverClear(sv) == [sv EXCEPT !.defects = {}]

\* for obs_idx in range(num_observables): if solver.get_observable(obs_idx)
ReadObservables(answer, num_obs) ==
    [o \in 1..num_obs |-> IF answer[o] # 0 THEN 1 ELSE 0]

\* solver.solve() and the reading of the correction; an error of the solver
\* leaves the call with the defects added
UFSolve(self, orc, loaded, dt) ==
    IF SolverAnswer(orc, loaded.defects, NumObservables(dem)) = Failure
    THEN Raise([self EXCEPT !.solver = loaded], "SolverError")
    ELSE Ok([latencies |-> Append(self.latencies, dt), solver |-> loaded],
            ReadObservables(SolverAnswer(orc, loaded.defects, NumObservables(dem)),
                            NumObservables(dem)))

\* for idx in defect_indices: solver.add_defect(idx), in increasing order;
\* a refused index ends the call with the earlier defects added
UFLoad(self, orc, cleared, defect_indices, bad, dt, rejects) ==
    IF bad # {} /\ rejects
    THEN Raise([self EXCEPT !.solver =
                   [cleared EXCEPT !.defects =
                       @ \cup {i \in defect_indices : \A k \in bad : i < k}]],
               "SolverError")
    ELSE UFSolve(self, orc, [cleared EXCEPT !.defects = @ \cup defect_indices], dt)

\* decode without the solver.clear() before the defects are added
UFDecodeUncleared(self, orc, syndrome, dt, rejects) ==
    UFLoad(self, orc, GetSolver(self.solver), Support(syndrome),
           {i \in Support(syndrome) : i >= NumDetectors(dem)}, dt, rejects)

\* UnionFindDecoder.decode.  rejects: whether the external solver refuses a
\* defect index that is no detector of the model (the repository's code does
\* not decide it); the latency is logged after the correction is read.
UFDecode(self, orc, syndrome, dt, rejects) ==
    UFLoad(self, orc, SolverClear(GetSolver(self.solver)), Support(syndrome),
           {i \in Support(syndrome) : i >= NumDetectors(dem)}, dt, rejects)

\* decoder.get_logical_correction on a UnionFindDecoder: the class defines
\* __init__, _get_solver, decode, get_average_latency and reset_latencies
\* only, so the attribute lookup fails before anything runs
UFGetLogicalCorrection(self) == Raise(self, "AttributeError")

-----------------------------------------------------------------------------
(* The single-shot path of either variant, as the batch loop calls it:      *)
(* get_logical_correction for ASRMPDecoder, decode for UnionFindDecoder.    *)

ShotCorrection(self, orc, syndrome, dt) ==
    IF variant = "MP" THEN MPGetLogicalCorrection(self, orc, syndrome, dt)
    ELSE UFDecode(self, orc, syndrome, dt, TRUE)

\* the rows of predictions filled from the last one backwards
PredictionIndexReversed(i, num_shots) == num_shots + 1 - i
\* predictions[i] = ...: the row of predictions shot i is written to
PredictionIndex(i, num_shots) == i

ShotStep(st, syndrome, r) ==
    [self |-> r.self, raised |-> r.raised, error |-> r.error,
     log |-> IF r.raised THEN st.log
             ELSE Append(st.log, [syndrome |-> syndrome, correction |-> r.value])]

RECURSIVE RunShots(_, _, _, _, _)
\* for i in range(num_shots): ...   st is [self, raised, error, log]
RunShots(shots, i, orc, dts, st) ==
    IF i > Len(shots) \/ st.raised THEN st
    ELSE RunShots(shots, i + 1, orc, dts,
                  ShotStep(st, shots[i],
                           ShotCorrection(st.self, orc, shots[i], dts[i])))

-----------------------------------------------------------------------------
(* State after construction and the operations on one decoder instance *)

\* n times the target t, the copies separated by "^"
Repeated(t, n) == [k \in 1..(2 * n - 1) |-> IF k % 2 = 1 THEN t ELSE Sep]

\* the error models a decoder is compiled for
DecoderDems ==
    { <<ErrorInstr(1, <<D(0), Lo(0)>>),
        ErrorInstr(4, <<D(0), Lo(0), Sep, D(1), Lo(0)>>)>>,
      <<ErrorInstr(2, <<D(8), Lo(0), Lo(8)>>)>>,
      <<ErrorInstr(3, <<D(0)>>)>> }

\* time.perf_counter() - t0 of one call, in abstract ticks: one value where
\* only the length of the latency log is read, two where its values are
\* (pc = "timed")
Durations == IF pc = "timed" THEN {12, 24} ELSE {1}

Init ==
    /\ dem \in DecoderDems
    /\ variant \in Variants
    /\ built = NoResult
    /\ pc = "compiled"
    /\ H = IF variant = "MP" THEN dem_to_matrices(dem).H ELSE NoMatrix
    /\ L = IF variant = "MP" THEN dem_to_matrices(dem).L ELSE NoMatrix
    /\ priors = IF variant = "MP" THEN dem_to_matrices(dem).priors ELSE <<>>
    /\ latencies = <<>>
    /\ solver = [created |-> FALSE, defects |-> {}]
    /\ oracle = <<>>
    /\ lastOp = NoOp
    /\ result = NoOutcome
    /\ shotLog = <<>>
    /\ calls = 0
    /\ resets = 0
    /\ current = 1
    /\ logRef = 1
    /\ others = <<>>
    /\ ImportIdle
    /\ LlrIdle
    /\ SynthIdle

\* an error model whose observable 0 is named 255 times by the first
\* mechanism and 257 times by the second
WrapDems ==
    { <<ErrorInstr(5, <<D(0), Sep>> \o Repeated(Lo(0), Uint8Mod - 1)),
        ErrorInstr(6, <<D(1), Sep>> \o Repeated(Lo(0), Uint8Mod + 1))>> }

\* an ASRMPDecoder constructed for such a model
InitWrap ==
    /\ dem \in WrapDems
    /\ variant = "MP"
    /\ built = NoResult
    /\ pc = "compiled"
    /\ H = MatricesOf(dem).H
    /\ L = MatricesOf(dem).L
    /\ priors = MatricesOf(dem).priors
    /\ latencies = <<>>
    /\ solver = [created |-> FALSE, defects |-> {}]
    /\ oracle = <<>>
    /\ lastOp = NoOp
    /\ result = NoOutcome
    /\ shotLog = <<>>
    /\ calls = 0
    /\ resets = 0
    /\ current = 1
    /\ logRef = 1
    /\ others = <<>>
    /\ ImportIdle
    /\ LlrIdle
    /\ SynthIdle

Self == [latencies |-> latencies, solver |-> solver]

\* syndromes handed to the single-shot operations: of the model's length, one
\* shorter and one longer
SyndromeInputs ==
    EndVectors(NumDetectors(dem))
        \cup LastBitVectors(NumDetectors(dem) + 1)
        \cup (IF NumDetectors(dem) > 0 THEN LastBitVectors(NumDetectors(dem) - 1)
              ELSE {})

\* the defect set the solver holds when the shot s is solved, sv being the
\* union-find solver handle before the call
SolveKey(sv, s) ==
    IF variant = "MP" THEN Support(s)
    ELSE SolverClear(GetSolver(sv)).defects \cup Support(s)

RECURSIVE SolveKeys(_, _, _)
\* the defect sets solved for shots[i], shots[i + 1], ...
SolveKeys(sv, shots, i) ==
    IF i > Len(shots) THEN {}
    ELSE {SolveKey(sv, shots[i])}
         \cup SolveKeys([created |-> TRUE, defects |-> SolveKey(sv, shots[i])],
                        shots, i + 1)

\* the defect sets a call asks the solver about that need an answer of its own
KeysOf(shots) == SolveKeys(solver, shots, 1) \ {{}}

\* the other instances after the list object of this instance has become
\* log: an instance whose self.latencies is that same object sees the change
Sync(log) ==
    [j \in DOMAIN others |->
        IF others[j].logRef = logRef THEN [others[j] EXCEPT !.latencies = log]
        ELSE others[j]]

Finish(op, r, log) ==
    /\ lastOp' = op
    /\ latencies' = r.self.latencies
    /\ solver' = r.self.solver
    /\ shotLog' = log
    /\ others' = Sync(r.self.latencies)
    /\ UNCHANGED <<importVars, llrVars, synthVars,
                   dem, built, pc, variant, H, L, priors, resets, current, logRef>>

Outcome(r) ==
    IF r.raised THEN [NoOutcome EXCEPT !.kind = "error", !.error = r.error]
    ELSE [NoOutcome EXCEPT !.kind = "ok", !.value = r.value]

SingleShot(op, s, orc, r) ==
    /\ oracle' = IF r.raised THEN oracle ELSE orc
    /\ result' = Outcome(r)
    /\ calls' = IF r.raised THEN calls ELSE calls + 1
    /\ Finish([NoOp EXCEPT !.op = op, !.syndrome = s], r,
              IF r.raised THEN <<>> ELSE <<[syndrome |-> s, correction |-> r.value]>>)

\* decoder.decode(syndrome) on either variant
Decode(s) ==
    /\ Len(latencies) < MaxCalls
    /\ \E ext \in [KeysOf(<<s>>) \ DOMAIN oracle -> Answers],
          dt \in Durations, rejects \in BOOLEAN :
         /\ (variant = "MP" => rejects)
         /\ SingleShot("decode", s, Extend(oracle, ext),
                       IF variant = "MP"
                       THEN MPDecode(Self, Extend(oracle, ext), s, dt)
                       ELSE UFDecode(Self, Extend(oracle, ext), s, dt, rejects))

\* decoder.get_logical_correction(syndrome) on either variant
GetLogicalCorrection(s) ==
    /\ Len(latencies) < MaxCalls
    /\ \E ext \in [(IF variant = "MP" THEN KeysOf(<<s>>) ELSE {}) \ DOMAIN oracle
                      -> Answers],
          dt \in Durations :
         SingleShot("get_logical_correction", s, Extend(oracle, ext),
                    IF variant = "MP"
                    THEN MPGetLogicalCorrection(Self, Extend(oracle, ext), s, dt)
                    ELSE UFGetLogicalCorrection(Self))

\* bytes of the packed inputs: no bit, bit 0, bit 0 and bit 7
ByteChoices == {0, 1, 129}

\* packed rows of w bytes: every byte the same, except that bit 7 is set in
\* the last byte only
RowsOf(w, bytes) ==
    {[i \in 1..w |-> IF b = 129 /\ i < w THEN 1 ELSE b] : b \in bytes}

\* the rows of a packed input of width w: three of the model's width, two of
\* another width
RowChoices(w) ==
    IF w = PackedWidth(NumDetectors(dem)) THEN RowsOf(w, ByteChoices)
    ELSE RowsOf(w, {0, 129})

\* packed arrays of up to MaxShots rows whose width is the model's
\* ceil(num_detectors / 8), one byte narrower or one byte wider
PackedInputs ==
    UNION {UNION {{[shape |-> <<n, w>>, rows |-> rows] :
                      rows \in [1..n -> RowChoices(w)]} :
                  w \in {k \in {PackedWidth(NumDetectors(dem)) - 1,
                                PackedWidth(NumDetectors(dem)),
                                PackedWidth(NumDetectors(dem)) + 1} : k >= 0}} :
           n \in 0..MaxShots}

\* predictions = np.zeros((num_shots, num_obs)); in the loop,
\* predictions[i] = correction[:num_obs]
Predictions(log, num_shots, num_obs) ==
    [i \in 1..num_shots |->
        [o \in 1..num_obs |->
            log[CHOOSE k \in 1..num_shots : PredictionIndex(k, num_shots) = i]
                .correction[o]]]

\* np.packbits(predictions, axis=1, bitorder="little")
PackRows(predictions, num_shots, num_obs) ==
    [shape |-> <<num_shots, PackedWidth(num_obs)>>,
     rows |-> [i \in 1..num_shots |-> PackBits(predictions[i])]]

BatchFinish(data, orc, st) ==
    /\ oracle' = orc
    /\ result' =
         IF st.raised
         THEN [NoOutcome EXCEPT !.kind = "error", !.error = st.error]
         ELSE [NoOutcome EXCEPT
                 !.kind = "ok",
                 !.packed = PackRows(Predictions(st.log, data.shape[1],
                                                 NumObservables(dem)),
                                     data.shape[1], NumObservables(dem))]
    /\ calls' = calls + (IF st.raised THEN Len(st.log) ELSE data.shape[1])
    /\ Finish([NoOp EXCEPT !.op = "batch", !.data = data], st, st.log)

BatchRun(data, shots) ==
    \E ext \in [KeysOf(shots) \ DOMAIN oracle -> Answers],
       dts \in [1..Len(shots) -> Durations] :
         BatchFinish(data, Extend(oracle, ext),
                     RunShots(shots, 1, Extend(oracle, ext), dts,
                              [self |-> Self, raised |-> FALSE, error |-> "",
                               log |-> <<>>]))

\* compiled.decode_shots_bit_packed(bit_packed_detection_event_data=data) of
\* TesseractCompiledDecoder and UnionFindCompiledDecoder:
\* shots = np.unpackbits(data, axis=1, count=num_detectors, bitorder="little")
DecodeShotsBitPacked(data) ==
    /\ Len(latencies) + data.shape[1] <= MaxCalls
    /\ BatchRun(data, [i \in 1..data.shape[1] |->
                          UnpackBits(data.rows[i], NumDetectors(dem))])

Next ==
    \/ \E s \in SyndromeInputs : Decode(s)
    \/ \E s \in SyndromeInputs : GetLogicalCorrection(s)
    \/ \E data \in PackedInputs : DecodeShotsBitPacked(data)

Spec == Init /\ [][Next]_vars

-----------------------------------------------------------------------------
(* The latency accessors *)

\* the log as it is after clearing a copy of it
LatenciesKept(log) == log
\* self.latencies.clear()
LatenciesCleared(log) == <<>>

\* sum(self.latencies) / len(self.latencies) without the test for an empty
\* log: 0 / 0 raises
AverageUnguarded(log) ==
    IF Len(log) = 0 THEN Raise(<<>>, "ZeroDivisionError")
    ELSE Ok(<<>>, <<SumTo(log, Len(log)) \div Len(log)>>)
\* get_average_latency: 0.0 for an empty log, else sum / len (the ticks are
\* multiples of 12, so the quotient is exact for up to four entries)
AverageLatency(log) ==
    IF log = <<>> THEN Ok(<<>>, <<0>>)
    ELSE Ok(<<>>, <<SumTo(log, Len(log)) \div Len(log)>>)

\* what an accessor leaves alone
Accessed(op, r) ==
    /\ lastOp' = [NoOp EXCEPT !.op = op]
    /\ result' = Outcome(r)
    /\ shotLog' = <<>>
    /\ UNCHANGED <<importVars, llrVars, synthVars,
                   dem, built, pc, variant, H, L, priors, solver, oracle,
                   current, logRef>>

\* decoder.reset_latencies() on either variant
ResetLatencies ==
    /\ resets < MaxResets
    /\ resets' = resets + 1
    /\ latencies' = LatenciesCleared(latencies)
    /\ others' = Sync(LatenciesCleared(latencies))
    /\ calls' = 0
    /\ Accessed("reset_latencies", Ok(<<>>, <<>>))

\* decoder.get_average_latency() on either variant
GetAverageLatency ==
    /\ Accessed("get_average_latency", AverageLatency(latencies))
    /\ UNCHANGED <<importVars, llrVars, synthVars, latencies, calls, resets, others>>

\* compiled.latencies of TesseractCompiledDecoder and of
\* UnionFindCompiledDecoder: the decoder's own list
CompiledLatencies ==
    /\ Accessed("latencies", Ok(<<>>, latencies))
    /\ UNCHANGED <<importVars, llrVars, synthVars, latencies, calls, resets, others>>

\* the error model of the runs that read the latency values
LatencyDems == { <<ErrorInstr(3, <<D(0)>>)>> }

InitLatency ==
    /\ dem \in LatencyDems
    /\ variant \in Variants
    /\ built = NoResult
    /\ pc = "timed"
    /\ H = IF variant = "MP" THEN dem_to_matrices(dem).H ELSE NoMatrix
    /\ L = IF variant = "MP" THEN dem_to_matrices(dem).L ELSE NoMatrix
    /\ priors = IF variant = "MP" THEN dem_to_matrices(dem).priors ELSE <<>>
    /\ latencies = <<>>
    /\ solver = [created |-> FALSE, defects |-> {}]
    /\ oracle = <<>>
    /\ lastOp = NoOp
    /\ result = NoOutcome
    /\ shotLog = <<>>
    /\ calls = 0
    /\ resets = 0
    /\ current = 1
    /\ logRef = 1
    /\ others = <<>>
    /\ ImportIdle
    /\ LlrIdle
    /\ SynthIdle

NextLatency ==
    \/ \E s \in SyndromeInputs : Decode(s)
    \/ \E s \in SyndromeInputs : GetLogicalCorrection(s)
    \/ \E data \in PackedInputs : DecodeShotsBitPacked(data)
    \/ ResetLatencies
    \/ GetAverageLatency
    \/ CompiledLatencies

SpecLatency == InitLatency /\ [][NextLatency]_vars

-----------------------------------------------------------------------------
(* Two compiled decoders in one run.  The variables of the decoder hold the *)
(* instance the caller is using; the fields of the other one are kept in    *)
(* others.  A latency list is an object: two instances whose logRef is the  *)
(* same hold the same list.                                                 *)

\* the fields of the instance in use
Instance ==
    [dem |-> dem, variant |-> variant, H |-> H, L |-> L, priors |-> priors,
     latencies |-> latencies, logRef |-> logRef, solver |-> solver,
     oracle |-> oracle, lastOp |-> lastOp, result |-> result,
     shotLog |-> shotLog, calls |-> calls]

\* the list objects bound to an instance
RefsInUse == {logRef} \cup {others[j].logRef : j \in DOMAIN others}

\* one list shared by all instances, as a class attribute would be
SharedList(refs) == CHOOSE r \in refs : \A q \in refs : r <= q
\* self.latencies = []: a list object no instance holds yet
NewList(refs) == Max(refs) + 1

\* the contents of the list object ref
ListContents(ref) ==
    IF ref = logRef THEN latencies
    ELSE IF \E j \in DOMAIN others : others[j].logRef = ref
    THEN others[CHOOSE j \in DOMAIN others : others[j].logRef = ref].latencies
    ELSE <<>>

\* the caller puts the instance in use aside under its id
Parked(log) == [j \in DOMAIN others \cup {current} |->
                  IF j = current THEN Instance ELSE Sync(log)[j]]

\* the error models and the number of instances of such a run
TwoDems == { <<ErrorInstr(3, <<D(0)>>)>>, <<ErrorInstr(1, <<D(0), Lo(0)>>)>> }
Instances == {1, 2}

\* the state of a decoder TesseractCompiledDecoder(d) or
\* UnionFindCompiledDecoder(d) has constructed, bound to the list object ref
Constructed(d, v, ref) ==
    /\ dem' = d
    /\ variant' = v
    /\ H' = IF v = "MP" THEN dem_to_matrices(d).H ELSE NoMatrix
    /\ L' = IF v = "MP" THEN dem_to_matrices(d).L ELSE NoMatrix
    /\ priors' = IF v = "MP" THEN dem_to_matrices(d).priors ELSE <<>>
    /\ logRef' = ref
    /\ latencies' = ListContents(ref)
    /\ solver' = [created |-> FALSE, defects |-> {}]
    /\ oracle' = <<>>
    /\ lastOp' = [NoOp EXCEPT !.op = "compile"]
    /\ result' = NoOutcome
    /\ shotLog' = <<>>
    /\ calls' = 0

\* factory.compile_decoder_for_dem(dem=d) of TesseractBPOSD (v = "MP") or of
\* UnionFindSinterDecoder (v = "UF"); the caller goes on with the new instance
CompileDecoderForDem(d, v) ==
    /\ DOMAIN others \cup {current} # Instances
    /\ current' = CHOOSE i \in Instances : i \notin DOMAIN others \cup {current}
    /\ others' = Parked(latencies)
    /\ Constructed(d, v, NewList(RefsInUse))
    /\ UNCHANGED <<importVars, llrVars, synthVars, built, pc, resets>>

\* the caller turns to the instance j it had put aside
UseInstance(j) ==
    /\ j \in DOMAIN others
    /\ current' = j
    /\ others' = [k \in (DOMAIN others \cup {current}) \ {j} |-> Parked(latencies)[k]]
    /\ dem' = others[j].dem
    /\ variant' = others[j].variant
    /\ H' = others[j].H
    /\ L' = others[j].L
    /\ priors' = others[j].priors
    /\ logRef' = others[j].logRef
    /\ latencies' = others[j].latencies
    /\ solver' = others[j].solver
    /\ oracle' = others[j].oracle
    /\ lastOp' = others[j].lastOp
    /\ result' = others[j].result
    /\ shotLog' = others[j].shotLog
    /\ calls' = others[j].calls
    /\ UNCHANGED <<importVars, llrVars, synthVars, built, pc, resets>>

\* the first instance is an ASRMPDecoder; the second is of either kind
InitTwo ==
    /\ dem \in TwoDems
    /\ variant = "MP"
    /\ built = NoResult
    /\ pc = "compiled"
    /\ H = IF variant = "MP" THEN dem_to_matrices(dem).H ELSE NoMatrix
    /\ L = IF variant = "MP" THEN dem_to_matrices(dem).L ELSE NoMatrix
    /\ priors = IF variant = "MP" THEN dem_to_matrices(dem).priors ELSE <<>>
    /\ latencies = <<>>
    /\ solver = [created |-> FALSE, defects |-> {}]
    /\ oracle = <<>>
    /\ lastOp = [NoOp EXCEPT !.op = "compile"]
    /\ result = NoOutcome
    /\ shotLog = <<>>
    /\ calls = 0
    /\ resets = 0
    /\ current = 1
    /\ logRef = 1
    /\ others = <<>>
    /\ ImportIdle
    /\ LlrIdle
    /\ SynthIdle

NextTwo ==
    \/ \E d \in TwoDems, v \in Variants : CompileDecoderForDem(d, v)
    \/ \E j \in Instances : UseInstance(j)
    \/ \E s \in SyndromeInputs : Decode(s)

SpecTwo == InitTwo /\ [][NextTwo]_vars

\* get_logical_correction alone, on a decoder whose L has large entries
NextWrap == \E s \in SyndromeInputs : GetLogicalCorrection(s)

SpecWrap == InitWrap /\ [][NextWrap]_vars

-----------------------------------------------------------------------------
(* Properties of dem_to_matrices, checked under SpecDem *)

IsErrorInstr(instr) == instr.type = "error"
\* the error instructions of the flattened model, in encounter order
ErrorInstrs(d) == SelectSeq(Flattened(d), IsErrorInstr)

HasTarget(instr, t) == \E j \in 1..Len(instr.targets) : instr.targets[j] = t

WellShaped(m) ==
    /\ DOMAIN m.data = 0..(m.shape[1] - 1)
    /\ \A r \in DOMAIN m.data : DOMAIN m.data[r] = 0..(m.shape[2] - 1)

\* C1: for every error model dem_to_matrices returns H of shape
\* (num_detectors, num_errors), L of shape (num_observables, num_errors) and
\* priors of length num_errors, num_errors being the number of error
\* instructions of the flattened model.
Thm_C1_Shapes ==
    pc = "built" =>
        /\ built.kind = "ok"
        /\ built.H.shape = <<NumDetectors(dem), Len(ErrorInstrs(dem))>>
        /\ built.L.shape = <<NumObservables(dem), Len(ErrorInstrs(dem))>>
        /\ Len(built.priors) = Len(ErrorInstrs(dem))
        /\ built.H.shape[2] = built.L.shape[2]
        /\ WellShaped(built.H)
        /\ WellShaped(built.L)

Wit_C1_Shapes ==
    /\ pc = "built"
    /\ built.kind = "ok"
    /\ built.H.shape = <<3, 2>>
    /\ built.L.shape = <<1, 2>>
    /\ Len(Flattened(dem)) = 3

\* C2: every entry of H and of L returned by dem_to_matrices is 0 or 1, also
\* when an error names the same detector or observable more than once.
CE_C2_Binary ==
    pc = "built" =>
        /\ built.kind = "ok"
        /\ \A r \in DOMAIN built.H.data : \A c \in DOMAIN built.H.data[r] :
               built.H.data[r][c] \in {0, 1}
        /\ \A r \in DOMAIN built.L.data : \A c \in DOMAIN built.L.data[r] :
               built.L.data[r][c] \in {0, 1}

Thm_C4_ZeroMechanisms ==
    (pc = "built" /\ Len(ErrorInstrs(dem)) = 0) =>
        /\ built.kind = "ok"
        /\ built.H.shape = <<NumDetectors(dem), 0>>
        /\ built.L.shape = <<NumObservables(dem), 0>>
        /\ built.priors = <<>>

Wit_C4_ZeroMechanisms ==
    /\ pc = "built"
    /\ Len(ErrorInstrs(dem)) = 0
    /\ NumDetectors(dem) = 3
    /\ NumObservables(dem) = 2
    /\ built.kind = "ok"

-----------------------------------------------------------------------------
(* Properties of the decoders, checked under Spec *)

\* the least k with 8 k >= n
CeilOf8(n) == CHOOSE k \in 0..n : 8 * k >= n /\ (k = 0 \/ 8 * (k - 1) < n)

\* bit j (from the least significant) of the number x
BitAt(x, j) == (x \div Pow2(j)) % 2

\* bit k (0-based) of a packed row in the little convention, 0 past its end
RowBit(row, k) ==
    IF k \div 8 < Len(row) THEN BitAt(row[k \div 8 + 1], k % 8) ELSE 0

BatchDone == lastOp.op = "batch" /\ result.kind = "ok"
RightWidth(data) == data.shape[2] = CeilOf8(NumDetectors(dem))

\* C5: for every decoder variant, decode(syndrome) with a syndrome whose
\* length is not num_detectors fails and returns no estimate.
CE_C5_SyndromeLength ==
    (lastOp.op = "decode" /\ Len(lastOp.syndrome) # NumDetectors(dem)) =>
        (result.kind = "error" /\ result.value = <<>> /\ shotLog = <<>>)

\* C6: decode_shots_bit_packed with rows whose width is not
\* ceil(num_detectors / 8) bytes surfaces an error to the caller.
CE_C6_RowWidth ==
    (lastOp.op = "batch" /\ ~RightWidth(lastOp.data)) => result.kind = "error"

\* C7: a batch is decoded in row order through the single-shot path, and
\* output row i is the packed logical correction of input row i.
Thm_C7_RowOrder ==
    BatchDone =>
        /\ Len(shotLog) = lastOp.data.shape[1]
        /\ Len(result.packed.rows) = lastOp.data.shape[1]
        /\ \A i \in 1..lastOp.data.shape[1] :
            /\ Len(shotLog[i].syndrome) = NumDetectors(dem)
            /\ \A k \in 0..(NumDetectors(dem) - 1) :
                 shotLog[i].syndrome[k + 1] = RowBit(lastOp.data.rows[i], k)
            /\ result.packed.rows[i] = PackBits(shotLog[i].correction)

Wit_C7_RowOrder ==
    /\ BatchDone
    /\ lastOp.data.shape = <<2, 1>>
    /\ lastOp.data.rows = << <<1>>, <<0>> >>
    /\ result.packed.rows = << <<1>>, <<0>> >>
    /\ shotLog[1].syndrome # shotLog[2].syndrome

\* C8: for n input rows and a model with m observables the output of
\* decode_shots_bit_packed has n rows of ceil(m / 8) bytes, also for n = 0
\* and for m = 0.
Thm_C8_OutputShape ==
    BatchDone =>
        /\ result.packed.shape =
              <<lastOp.data.shape[1], CeilOf8(NumObservables(dem))>>
        /\ Len(result.packed.rows) = lastOp.data.shape[1]
        /\ \A i \in 1..Len(result.packed.rows) :
              Len(result.packed.rows[i]) = CeilOf8(NumObservables(dem))

Wit_C8_OutputShape ==
    /\ BatchDone
    /\ NumObservables(dem) = 9
    /\ lastOp.data.shape[1] = 2
    /\ result.packed.shape = <<2, 2>>

\* C9: in every output row, bit j (from the least significant) of byte b is
\* bit 8b + j of that shot's logical correction when 8b + j < num_observables
\* and 0 otherwise.
Thm_C9_LittleBitOrder ==
    BatchDone =>
        \A i \in 1..Len(result.packed.rows) :
            \A b \in 0..(Len(result.packed.rows[i]) - 1) : \A j \in 0..7 :
                BitAt(result.packed.rows[i][b + 1], j) =
                    IF 8 * b + j < NumObservables(dem)
                    THEN shotLog[i].correction[8 * b + j + 1]
                    ELSE 0

Wit_C9_LittleBitOrder ==
    /\ BatchDone
    /\ NumObservables(dem) = 9
    /\ \E i \in 1..Len(shotLog) :
          /\ shotLog[i].correction = <<0, 0, 0, 0, 0, 0, 0, 0, 1>>
          /\ result.packed.rows[i] = <<0, 1>>

\* two packed arrays of the model's row width that agree on the first
\* num_detectors bits of every row
AgreeOnDetectorBits(d1, d2) ==
    /\ RightWidth(d1)
    /\ RightWidth(d2)
    /\ d1.shape = d2.shape
    /\ \A i \in 1..d1.shape[1] : \A k \in 0..(NumDetectors(dem) - 1) :
          RowBit(d1.rows[i], k) = RowBit(d2.rows[i], k)

\* C10: padding bits are ignored on read: two batches of the right row width
\* that agree on the first num_detectors bits of every row are unpacked to the
\* same syndromes and (the solver being deterministic) give the same output.
Thm_C10_PaddingIgnored ==
    [][(/\ BatchDone
        /\ BatchDone'
        /\ AgreeOnDetectorBits(lastOp.data, lastOp'.data))
       => (/\ result'.packed = result.packed
           /\ Len(shotLog') = Len(shotLog)
           /\ \A i \in 1..Len(shotLog) :
                 shotLog'[i].syndrome = shotLog[i].syndrome)]_vars

\* the second of two one-row batches has ended; its row has padding bits set
\* and the solver had answered for its syndrome before
Wit_C10_PaddingIgnored ==
    /\ BatchDone
    /\ RightWidth(lastOp.data)
    /\ lastOp.data.shape[1] = 1
    /\ Len(latencies) = 2
    /\ NumDetectors(dem) = 2
    /\ lastOp.data.rows[1] = <<129>>
    /\ shotLog[1].syndrome = <<1, 0>>
    /\ DOMAIN oracle = {{0}}
    /\ result.packed.rows[1] # <<0>>

\* the estimate the solver returned for the syndrome s
EstimateFor(s) == SolverAnswer(oracle, Support(s), H.shape[2])

\* how often the target t occurs among the targets of instr
Occurrences(instr, t) ==
    Cardinality({j \in 1..Len(instr.targets) : instr.targets[j] = t})

\* how many times the mechanisms chosen by estimate flip observable o,
\* counted in the integers
FlipCount(o, estimate) ==
    SumTo([i \in 1..Len(ErrorInstrs(dem)) |->
              estimate[i] * Occurrences(ErrorInstrs(dem)[i], Lo(o))],
          Len(ErrorInstrs(dem)))

\* C11: get_logical_correction(syndrome) of the message-passing decoder
\* returns num_observables entries, each 0 or 1, each the parity of the number
\* of times the mechanisms of the estimate decode returned in that call flip
\* the observable, which is also (L . e) mod 2 taken in the integers, although
\* L and the product are uint8 and wrap at 256.
Thm_C11_LogicalParity ==
    (variant = "MP" /\ lastOp.op = "get_logical_correction" /\ result.kind = "ok") =>
        /\ Len(result.value) = NumObservables(dem)
        /\ \A o \in 1..Len(result.value) :
              /\ result.value[o] \in {0, 1}
              /\ result.value[o] =
                    FlipCount(o - 1, EstimateFor(lastOp.syndrome)) % 2
              /\ result.value[o] =
                    SumTo([j \in 1..L.shape[2] |->
                              L.data[o - 1][j - 1] * EstimateFor(lastOp.syndrome)[j]],
                          L.shape[2]) % 2

\* both mechanisms estimated: 255 + 257 flips, a uint8 row sum of 255 + 1
Wit_C11_LogicalParity ==
    /\ variant = "MP"
    /\ lastOp.op = "get_logical_correction"
    /\ result.kind = "ok"
    /\ EstimateFor(lastOp.syndrome) = <<1, 1>>
    /\ L.data[0][0] = 255
    /\ L.data[0][1] = 1
    /\ FlipCount(0, <<1, 1>>) = 512
    /\ result.value = <<0>>

\* C12: every decoder variant has get_logical_correction(syndrome); on the
\* union-find decoder it returns what decode returns for that syndrome,
\* num_observables entries, not a product with L.
CE_C12_UniformContract ==
    (variant = "UF" /\ lastOp.op = "get_logical_correction"
                    /\ Len(lastOp.syndrome) = NumDetectors(dem)) =>
        /\ result.kind = "ok"
        /\ Len(result.value) = NumObservables(dem)
        /\ result.value =
              ReadObservables(SolverAnswer(oracle, Support(lastOp.syndrome),
                                           NumObservables(dem)),
                              NumObservables(dem))

\* the operations whose shotLog entries hold logical corrections
GivesCorrections ==
    \/ lastOp.op = "batch"
    \/ variant = "MP" /\ lastOp.op = "get_logical_correction"
    \/ variant = "UF" /\ lastOp.op = "decode"

\* C13: at any point of a run, decoding the all-zero syndrome gives the
\* all-zero logical correction: get_logical_correction of the message-passing
\* decoder, decode of the union-find decoder (which then holds no defect), and
\* every all-zero row of a batch.
Thm_C13_ZeroSyndrome ==
    /\ GivesCorrections =>
          \A i \in 1..Len(shotLog) :
              (Len(shotLog[i].syndrome) = NumDetectors(dem)
                  /\ Support(shotLog[i].syndrome) = {})
              => shotLog[i].correction = Quiet(NumObservables(dem))
    /\ (variant = "UF" /\ lastOp.op = "decode" /\ result.kind = "ok"
           /\ Support(lastOp.syndrome) = {})
       => (solver.created /\ solver.defects = {})

\* the union-find decoder decodes the zero syndrome after a syndrome whose
\* defect made the solver flip the observable
Wit_C13_ZeroSyndrome ==
    /\ variant = "UF"
    /\ lastOp.op = "decode"
    /\ result.kind = "ok"
    /\ lastOp.syndrome = <<0, 0>>
    /\ Len(latencies) = 2
    /\ DOMAIN oracle = {{0}}
    /\ oracle[{0}] = <<1>>
    /\ result.value = <<0>>
    /\ solver.defects = {}


-----------------------------------------------------------------------------
(* Properties of the latency log, checked under SpecLatency *)

Thm_C15_AverageLatency ==
    [][lastOp'.op = "get_average_latency" =>
         /\ latencies' = latencies
         /\ result'.kind = "ok"
         /\ Len(result'.value) = 1
         /\ latencies = <<>> => result'.value[1] = 0
         /\ latencies # <<>> =>
               result'.value[1] * Len(latencies) = SumTo(latencies, Len(latencies))]_vars

\* the mean of two different latencies
Wit_C15_AverageLatency ==
    /\ lastOp.op = "get_average_latency"
    /\ latencies = <<12, 24>>
    /\ result.value = <<18>>

\* the mean right after a reset that emptied a log of two entries
Wit_C15_AfterReset ==
    /\ lastOp.op = "get_average_latency"
    /\ resets = 1
    /\ latencies = <<>>
    /\ result.value = <<0>>


-----------------------------------------------------------------------------
(* Properties of two compiled decoders, checked under SpecTwo *)

\* C16: compile_decoder_for_dem returns a fresh instance with its own H, L
\* and priors (those of its error model), its own solver handle and its own,
\* empty latency list, whatever was compiled or decoded before; and under any
\* interleaving an operation on one instance leaves the other instance's
\* latency log, matrices and results as they were.
Thm_C16_Isolation ==
    [][/\ current' = current => others' = others
       /\ (current' # current /\ current' \notin DOMAIN others) =>
             /\ others' = [j \in DOMAIN others \cup {current} |->
                             IF j = current THEN Instance ELSE others[j]]
             /\ logRef' \notin RefsInUse
             /\ latencies' = <<>>
             /\ calls' = 0
             /\ ~solver'.created
             /\ oracle' = <<>>
             /\ result' = NoOutcome
             /\ H' = IF variant' = "MP" THEN dem_to_matrices(dem').H ELSE NoMatrix
             /\ L' = IF variant' = "MP" THEN dem_to_matrices(dem').L ELSE NoMatrix
             /\ priors' = IF variant' = "MP" THEN dem_to_matrices(dem').priors
                          ELSE <<>>
       /\ current' \in DOMAIN others =>
             /\ Instance' = others[current']
             /\ others'[current] = Instance]_vars

\* the first instance is in use again and has decoded twice; the second, a
\* union-find decoder for another error model, has decoded once in between
Wit_C16_Isolation ==
    /\ current = 1
    /\ DOMAIN others = {2}
    /\ others[2].variant = "UF"
    /\ others[2].dem # dem
    /\ others[2].calls = 1
    /\ Len(others[2].latencies) = 1
    /\ others[2].result.kind = "ok"
    /\ calls = 2
    /\ Len(latencies) = 2
    /\ result.kind = "ok"


-----------------------------------------------------------------------------
(* Importing the package.  A statement `from asr_mp.m import C` first      *)
(* imports the package asr_mp, which runs asr_mp/__init__.py unless the    *)
(* package is in sys.modules already, then the submodule m.  A module that *)
(* raises while it is executed is not kept in sys.modules; the submodules  *)
(* it had loaded by then are.  ModuleNotFoundError is an ImportError.      *)

\* the names each module of the package defines at its top level
Defines(mod) ==
    CASE mod = "dem_utils" -> {"dem_to_matrices", "get_channel_llrs"}
      [] mod = "decoder" ->
            {"ASRMPDecoder", "TesseractCompiledDecoder", "TesseractBPOSD"}
      [] mod = "noise_models" ->
            {"generate_stress_circuit", "generate_standard_circuit",
             "generate_undeniable_tasks", "generate_standard_tasks",
             "generate_sweep_tasks"}
      [] mod = "union_find_decoder" ->
            {"UnionFindDecoder", "UnionFindCompiledDecoder",
             "UnionFindSinterDecoder"}
      [] OTHER -> {}

\* import of an external library; guarded when an enclosing try swallows
\* the ImportError
Lib(name, guarded) ==
    [kind |-> "lib", from |-> name, names |-> {}, guarded |-> guarded]
\* from .sub import names
Sub(sub, names) ==
    [kind |-> "sub", from |-> sub, names |-> names, guarded |-> FALSE]

\* the import statements a module executes, in source order
Body(mod) ==
    CASE mod = "asr_mp" ->
            << Sub("decoder", {"ASRMPDecoder", "TesseractBPOSD"}),
               Sub("dem_utils", {"dem_to_matrices"}),
               Sub("noise_models",
                   {"generate_leakage_circuit", "generate_leakage_tasks",
                    "generate_stress_circuit", "generate_undeniable_tasks"}),
               Sub("union_find_decoder", {"UnionFindDecoder"}) >>
      [] mod = "dem_utils" ->
            << Lib("numpy", FALSE), Lib("scipy", FALSE), Lib("stim", FALSE) >>
      [] mod = "decoder" ->
            << Lib("numpy", FALSE), Lib("sinter", FALSE), Lib("stim", FALSE),
               Sub("dem_utils", {"dem_to_matrices"}),
               \* try: from ldpc import BpOsdDecoder
               \* except ImportError: from ldpc import bposd_decoder
               Lib("ldpc", FALSE) >>
      [] mod = "noise_models" ->
            << Lib("numpy", FALSE), Lib("sinter", FALSE), Lib("stim", FALSE) >>
      [] mod = "union_find_decoder" ->
            << Lib("numpy", FALSE), Lib("sinter", FALSE), Lib("stim", FALSE),
               Lib("fusion_blossom", TRUE) >>
      [] OTHER -> <<>>

Loaded(sm) == [raised |-> FALSE, missing |-> "", modules |-> sm]
ImportError(what, sm) == [raised |-> TRUE, missing |-> what, modules |-> sm]

RECURSIVE Load(_, _, _), RunImports(_, _, _, _)
\* import of module mod of the package with libraries libs installed and
\* sm in sys.modules
Load(mod, libs, sm) ==
    IF mod \in sm THEN Loaded(sm)
    ELSE LET r == RunImports(Body(mod), 1, libs, sm)
         IN  IF r.raised THEN r ELSE Loaded(r.modules \cup {mod})

\* the import statements steps[i..] of a module body
RunImports(steps, i, libs, sm) ==
    IF i > Len(steps) THEN Loaded(sm)
    ELSE IF steps[i].kind = "lib"
    THEN IF steps[i].from \in libs \/ steps[i].guarded
         THEN RunImports(steps, i + 1, libs, sm)
         ELSE ImportError(steps[i].from, sm)
    ELSE LET r == Load(steps[i].from, libs, sm)
         IN  IF r.raised THEN r
             ELSE IF steps[i].names \subseteq Defines(steps[i].from)
             THEN RunImports(steps, i + 1, libs, r.modules)
             ELSE ImportError(CHOOSE n \in steps[i].names :
                                 n \notin Defines(steps[i].from), r.modules)

\* from asr_mp.sub import name, executed by a client of the package
ImportFrom(sub, name, libs, sm) ==
    LET pkg == Load("asr_mp", libs, sm)
    IN  IF pkg.raised THEN pkg
        ELSE LET r == Load(sub, libs, pkg.modules)
             IN  IF r.raised THEN r
                 ELSE IF name \in Defines(sub) THEN r
                 ELSE ImportError(name, r.modules)

\* FUSION_BLOSSOM_AVAILABLE as union_find_decoder sets it when it is loaded
FUSION_BLOSSOM_AVAILABLE(libs) == "fusion_blossom" \in libs

ModuleOf(v) == IF v = "MP" THEN "decoder" ELSE "union_find_decoder"
ClassOf(v) == IF v = "MP" THEN "ASRMPDecoder" ELSE "UnionFindDecoder"

\* the libraries decoder variant v works with: those its module imports
RequiredBy(v) ==
    {"numpy", "scipy", "stim", "sinter"}
        \cup (IF v = "MP" THEN {"ldpc"} ELSE {"fusion_blossom"})

\* from asr_mp.<module> import <Class>; decoder = <Class>(d), once per
\* variant in a run; a decoder constructed earlier in the run stays alive
ImportAndConstruct(v, d) ==
    LET r == ImportFrom(ModuleOf(v), ClassOf(v), installed, sysModules)
    IN  /\ attempt[v].stage = "none"
        /\ sysModules' = r.modules
        /\ installed' = installed
        /\ IF r.raised
           THEN /\ attempt' = [attempt EXCEPT ![v] =
                                 [stage |-> "import", error |-> "ImportError",
                                  missing |-> r.missing]]
                /\ UNCHANGED <<dem, variant, H, L, priors, latencies, solver,
                               oracle, lastOp, result, shotLog, calls, logRef,
                               current, others>>
           ELSE IF v = "UF" /\ ~FUSION_BLOSSOM_AVAILABLE(installed)
           THEN /\ attempt' = [attempt EXCEPT ![v] =
                                 [stage |-> "construct",
                                  error |-> "ImportError",
                                  missing |-> "fusion_blossom"]]
                /\ UNCHANGED <<dem, variant, H, L, priors, latencies, solver,
                               oracle, lastOp, result, shotLog, calls, logRef,
                               current, others>>
           ELSE /\ attempt' = [attempt EXCEPT ![v] =
                                 [stage |-> "instance", error |-> "",
                                  missing |-> ""]]
                /\ IF \E w \in Variants : attempt[w].stage = "instance"
                   THEN /\ current' = current + 1
                        /\ others' = Parked(latencies)
                        /\ Constructed(d, v, NewList(RefsInUse))
                   ELSE /\ Constructed(d, v, logRef)
                        /\ UNCHANGED <<current, others>>
        /\ UNCHANGED <<built, pc, resets, llrVars, synthVars>>

\* any subset of the libraries may be installed; no decoder exists yet
InitImport ==
    /\ installed \in SUBSET Libs
    /\ sysModules = {}
    /\ attempt = NoAttempts
    /\ dem \in DecoderDems
    /\ built = NoResult
    /\ pc = "start"
    /\ DecoderIdle
    /\ LlrIdle
    /\ SynthIdle

NextImport == \E v \in Variants : ImportAndConstruct(v, dem)

SpecImport == InitImport /\ [][NextImport]_vars


-----------------------------------------------------------------------------
(* Properties of importing and constructing the decoders, under SpecImport *)

OtherVariant(v) == IF v = "MP" THEN "UF" ELSE "MP"

\* C17: a missing external solver is a construction-time failure local to
\* that decoder.  With fusion_blossom absent, importing and constructing the
\* union-find decoder ends in a missing-dependency error and yields no
\* instance to decode with; and a decoder whose own libraries are installed
\* is constructed although the other decoder's backend library is absent.
CE_C17_LocalFailure ==
    /\ (attempt["UF"].stage # "none" /\ "fusion_blossom" \notin installed) =>
          /\ attempt["UF"].error = "ImportError"
          /\ attempt["UF"].stage # "instance"
    /\ \A v \in Variants :
          (/\ attempt[v].stage # "none"
           /\ RequiredBy(v) \subseteq installed
           /\ ~(RequiredBy(OtherVariant(v)) \subseteq installed)) =>
             attempt[v].stage = "instance"


-----------------------------------------------------------------------------
(* get_channel_llrs.  Probabilities are decimal fractions with MaxDigits   *)
(* digits, held exactly as whole numbers of units of 10^-MaxDigits; a      *)
(* whole number is a sequence of NumLimbs limbs, least significant first,  *)
(* each below LimbBase.  A log-likelihood ratio log(num/den) is held as    *)
(* the pair of num and den: log is strictly increasing, so two ratios      *)
(* compare as num/den do.                                                  *)

MaxDigits == 12     \* decimal digits of a probability
MaxPriors == 2      \* entries of a priors array
LimbBase == 10000
NumLimbs == 4
ClipMinDigits == 10 \* clip_min: float = 1e-10

Pow10(e) == CASE e = 0 -> 1 [] e = 1 -> 10 [] e = 2 -> 100 [] OTHER -> 1000

\* the whole number m * 10^e, for a digit m
Scaled(m, e) ==
    [i \in 1..NumLimbs |-> IF i = (e \div 4) + 1 THEN m * Pow10(e % 4) ELSE 0]

\* the probability m * 10^-k
Prob(m, k) == Scaled(m, MaxDigits - k)
ProbZero == Scaled(0, 0)
ProbOne == Prob(1, 0)

\* a < b, for whole numbers of the same number of limbs
Less(a, b) ==
    \E i \in DOMAIN a :
        a[i] < b[i] /\ \A j \in DOMAIN a : j > i => a[j] = b[j]

\* a - b for a >= b: limb by limb with borrow
Minus(a, b) ==
    [i \in DOMAIN a |->
        LET borrow == IF \E j \in 1..(i - 1) :
                            /\ a[j] < b[j]
                            /\ \A k \in (j + 1)..(i - 1) : a[k] = b[k]
                      THEN 1 ELSE 0
        IN  (a[i] - b[i] - borrow + LimbBase) % LimbBase]

\* the sum of the limb products of a and b that carry weight LimbBase^(k-1)
Column(a, b, k) ==
    LET RECURSIVE Sum(_)
        Sum(i) == IF i > Len(a) THEN 0
                  ELSE (IF k + 1 - i \in DOMAIN b THEN a[i] * b[k + 1 - i] ELSE 0)
                       + Sum(i + 1)
    IN  Sum(1)

RECURSIVE Carried(_, _, _, _)
\* the limbs k.. of a * b given the carry into limb k
Carried(a, b, k, carry) ==
    IF k > Len(a) + Len(b) THEN <<>>
    ELSE <<(Column(a, b, k) + carry) % LimbBase>>
         \o Carried(a, b, k + 1, (Column(a, b, k) + carry) \div LimbBase)

\* a * b
Times(a, b) == Carried(a, b, 1, 0)

\* the identity in the place of np.clip
Unclipped(x, lo, hi) == x
\* np.clip(x, lo, hi) of one element
Clip(x, lo, hi) == IF Less(x, lo) THEN lo ELSE IF Less(hi, x) THEN hi ELSE x

\* log(den / num) in the place of log(num / den)
LogInverted(num, den) ==
    IF num = ProbZero THEN [kind |-> "inf", num |-> den, den |-> num]
    ELSE IF den = ProbZero THEN [kind |-> "-inf", num |-> den, den |-> num]
    ELSE [kind |-> "finite", num |-> den, den |-> num]
\* np.log(num / den) for num, den >= 0 not both 0: dividing by zero gives
\* inf and a warning, log(inf) is inf and log(0) is -inf
LogRatio(num, den) ==
    IF den = ProbZero THEN [kind |-> "inf", num |-> num, den |-> den]
    ELSE IF num = ProbZero THEN [kind |-> "-inf", num |-> num, den |-> den]
    ELSE [kind |-> "finite", num |-> num, den |-> den]

\* x > y for two log-likelihood ratios
LlrGreater(x, y) ==
    CASE x.kind = "inf" -> y.kind # "inf"
      [] x.kind = "-inf" -> FALSE
      [] OTHER -> \/ y.kind = "-inf"
                  \/ /\ y.kind = "finite"
                     /\ Less(Times(y.num, x.den), Times(x.num, y.den))

\* x = y for two log-likelihood ratios
LlrEqual(x, y) == ~LlrGreater(x, y) /\ ~LlrGreater(y, x)

\* get_channel_llrs(priors, clip_min)
get_channel_llrs(priors_in, clip_min) ==
    LET p_clipped == [i \in DOMAIN priors_in |->
                        Clip(priors_in[i], clip_min, Minus(ProbOne, clip_min))]
    IN  [i \in DOMAIN priors_in |->
            LogRatio(Minus(ProbOne, p_clipped[i]), p_clipped[i])]

DefaultClipMin == Prob(1, ClipMinDigits)

\* probabilities in [0, 1]: both ends, values on either side of both clip
\* bounds, and those of test_monotonic
PriorGrid ==
    {ProbZero, Prob(1, 12), Prob(1, 11), DefaultClipMin, Prob(1, 9),
     Prob(1, 2), Prob(1, 1), Prob(3, 1), Prob(5, 1), Prob(7, 1), Prob(9, 1),
     Minus(ProbOne, Prob(1, 9)), Minus(ProbOne, DefaultClipMin),
     Minus(ProbOne, Prob(1, 11)), Minus(ProbOne, Prob(1, 12)), ProbOne}

PriorInputs == UNION {[1..n -> PriorGrid] : n \in 1..MaxPriors}

\* llrs = get_channel_llrs(priors)
GetChannelLlrs ==
    /\ llrs.kind = "none"
    /\ llrs' = [kind |-> "ok", value |-> get_channel_llrs(probs, DefaultClipMin)]
    /\ UNCHANGED <<dem, built, pc, variant, H, L, priors, latencies, solver,
                   oracle, lastOp, result, shotLog, calls, resets, current,
                   logRef, others, importVars, probs, synthVars>>

InitLlr ==
    /\ probs \in PriorInputs
    /\ llrs = NoLlrs
    /\ dem = <<>>
    /\ built = NoResult
    /\ pc = "start"
    /\ DecoderIdle
    /\ ImportIdle
    /\ SynthIdle

NextLlr == GetChannelLlrs

SpecLlr == InitLlr /\ [][NextLlr]_vars


-----------------------------------------------------------------------------
(* Properties of get_channel_llrs, checked under SpecLlr *)

\* entries i, j of the priors array lie in the open interval, i below j
OpenPair(i, j) ==
    /\ Less(ProbZero, probs[i])
    /\ Less(probs[i], probs[j])
    /\ Less(probs[j], ProbOne)

\* C18 as stated: for any 0 < p1 < p2 < 1, llr(p1) > llr(p2).
CE_C18_StrictlyDecreasing ==
    llrs.kind = "ok" =>
        \A i, j \in DOMAIN probs :
            OpenPair(i, j) => LlrGreater(llrs.value[i], llrs.value[j])

\* C18, amended: for any 0 < p1 < p2 < 1, llr(p1) >= llr(p2); llr(p1) >
\* llr(p2) when clip_min <= p1 and p2 <= 1 - clip_min; and llr(p1) = llr(p2)
\* when both are at most clip_min or both are at least 1 - clip_min.
Thm_C18_DecreasingBetweenClips ==
    llrs.kind = "ok" =>
        \A i, j \in DOMAIN probs :
            OpenPair(i, j) =>
                /\ ~LlrGreater(llrs.value[j], llrs.value[i])
                /\ (/\ ~Less(probs[i], DefaultClipMin)
                    /\ ~Less(Minus(ProbOne, DefaultClipMin), probs[j])) =>
                       LlrGreater(llrs.value[i], llrs.value[j])
                /\ (\/ ~Less(DefaultClipMin, probs[j])
                    \/ ~Less(probs[i], Minus(ProbOne, DefaultClipMin))) =>
                       LlrEqual(llrs.value[i], llrs.value[j])

\* the conversion has run on an array holding two values below clip_min
Wit_C18_DecreasingBetweenClips ==
    /\ llrs.kind = "ok"
    /\ probs = <<Prob(1, 12), Prob(1, 11)>>
    /\ LlrEqual(llrs.value[1], llrs.value[2])

\* on a pair between the clip bounds the ratio strictly decreases
Wit_C18_BetweenClips ==
    /\ llrs.kind = "ok"
    /\ probs = <<DefaultClipMin, Prob(1, 9)>>
    /\ LlrGreater(llrs.value[1], llrs.value[2])

\* C19: for priors in [0, 1] get_channel_llrs returns, and every entry is
\* finite: the argument of the logarithm has a positive numerator and a
\* positive denominator; the entry for p = 0 equals that for clip_min and the
\* entry for p = 1 equals that for 1 - clip_min.
Thm_C19_ClippedFinite ==
    llrs.kind = "ok" =>
        /\ DOMAIN llrs.value = DOMAIN probs
        /\ \A i \in DOMAIN probs :
              /\ llrs.value[i].kind = "finite"
              /\ Less(ProbZero, llrs.value[i].num)
              /\ Less(ProbZero, llrs.value[i].den)
              /\ probs[i] = ProbZero =>
                    llrs.value[i] =
                       get_channel_llrs(<<DefaultClipMin>>, DefaultClipMin)[1]
              /\ probs[i] = ProbOne =>
                    llrs.value[i] =
                       get_channel_llrs(<<Minus(ProbOne, DefaultClipMin)>>,
                                        DefaultClipMin)[1]

\* the conversion has run on the array [0.0, 1.0] of test_clipping_prevents_inf
Wit_C19_ClippedFinite ==
    /\ llrs.kind = "ok"
    /\ probs = <<ProbZero, ProbOne>>


-----------------------------------------------------------------------------
(* Circuits.  A circuit is a sequence of instructions; an instruction has  *)
(* a name, arguments, targets and, for a REPEAT block, a body.  What       *)
(* stim.Circuit.generated("surface_code:rotated_memory_z", ...) returns is *)
(* the work of the stim library: the layout below is the one it documents  *)
(* for the rotated surface code (qubits on a grid of doubled coordinates,  *)
(* data qubits at odd-odd positions, measure qubits at even-even ones).    *)

Instr(name, iargs, targets) ==
    [name |-> name, args |-> iargs, targets |-> targets, body |-> <<>>]
RepeatBlock(n, body) ==
    [name |-> "REPEAT", args |-> <<n>>, targets |-> <<>>, body |-> body]

Qubit(q) == [kind |-> "q", v |-> q]
Rec(k) == [kind |-> "rec", v |-> k]
\* stim.target_z(q)
target_z(q) == [kind |-> "Z", v |-> q]

\* the elements of a set of integers in increasing order
Ascending(S) ==
    [k \in 1..Cardinality(S) |->
        CHOOSE x \in S : Cardinality({y \in S : y < x}) = k - 1]

\* the index of the qubit at doubled coordinates c in a distance d code
QubitIndex(c, d) == c[1] + (2 * d + 1) * (c[2] \div 2)
CoordsOf(q, d) ==
    CHOOSE c \in (0..(2 * d)) \X (0..(2 * d)) :
        /\ QubitIndex(c, d) = q
        /\ c[1] % 2 = c[2] % 2
        /\ (c[1] % 2 = 1 \/ c[2] % 2 = 0)

DataCoords(d) == {<<2 * i + 1, 2 * j + 1>> : i \in 0..(d - 1), j \in 0..(d - 1)}
\* the measure qubits of one type: the X type sits where x and y differ in
\* parity, and the two boundaries each keep one type only
MeasureCoords(d, xType) ==
    {<<2 * x, 2 * y>> : x \in 0..d, y \in 0..d} \cap
    {c \in (0..(2 * d)) \X (0..(2 * d)) :
        LET x == c[1] \div 2
            y == c[2] \div 2
            parity == (x % 2) # (y % 2)
        IN  /\ c[1] % 2 = 0 /\ c[2] % 2 = 0
            /\ ~((x = 0 \/ x = d) /\ parity)
            /\ ~((y = 0 \/ y = d) /\ ~parity)
            /\ parity = xType}

DataQubits(d) == {QubitIndex(c, d) : c \in DataCoords(d)}
XMeasureQubits(d) == {QubitIndex(c, d) : c \in MeasureCoords(d, TRUE)}
ZMeasureQubits(d) == {QubitIndex(c, d) : c \in MeasureCoords(d, FALSE)}
MeasureQubits(d) == XMeasureQubits(d) \cup ZMeasureQubits(d)
AllQubits(d) == DataQubits(d) \cup MeasureQubits(d)

AsTargets(qs) == [k \in DOMAIN qs |-> Qubit(qs[k])]
QubitTargets(S) == AsTargets(Ascending(S))

\* the order in which a measure qubit meets its four neighbours
XOrder == <<<<1, 1>>, <<-1, 1>>, <<1, -1>>, <<-1, -1>>>>
ZOrder == <<<<1, 1>>, <<1, -1>>, <<-1, 1>>, <<-1, -1>>>>

\* the data qubit next to measure qubit m in direction delta, or -1
Neighbour(m, delta, d) ==
    LET c == CoordsOf(m, d)
        n == <<c[1] + delta[1], c[2] + delta[2]>>
    IN  IF n \in DataCoords(d) THEN QubitIndex(n, d) ELSE -1

\* the targets of CX layer k: control and target of each pair in turn
CxTargets(d, k) ==
    LET xs == SelectSeq(Ascending(XMeasureQubits(d)),
                        LAMBDA m : Neighbour(m, XOrder[k], d) # -1)
        zs == SelectSeq(Ascending(ZMeasureQubits(d)),
                        LAMBDA m : Neighbour(m, ZOrder[k], d) # -1)
    IN  [i \in 1..(2 * Len(xs)) |->
            IF i % 2 = 1 THEN Qubit(xs[(i + 1) \div 2])
            ELSE Qubit(Neighbour(xs[i \div 2], XOrder[k], d))]
        \o
        [i \in 1..(2 * Len(zs)) |->
            IF i % 2 = 1 THEN Qubit(Neighbour(zs[(i + 1) \div 2], ZOrder[k], d))
            ELSE Qubit(zs[i \div 2])]

\* the position of q in the increasing order of S
PositionIn(q, S) == Cardinality({y \in S : y <= q})

\* the noise stim's generator adds for its four noise arguments, all set to
\* p here; nothing is added for p = 0
NoiseAfter(name, targets, p) ==
    IF p = 0 THEN <<>> ELSE <<Instr(name, <<p>>, targets)>>

\* one round of stabilizer measurement: the gate layers and the measurement
\* of the measure qubits, a TICK after each layer
Cycle(d, p) ==
    LET h == <<Instr("H", <<>>, QubitTargets(XMeasureQubits(d)))>>
             \o NoiseAfter("DEPOLARIZE1", QubitTargets(XMeasureQubits(d)), p)
             \o <<Instr("TICK", <<>>, <<>>)>>
        cx(k) == <<Instr("CX", <<>>, CxTargets(d, k))>>
                 \o NoiseAfter("DEPOLARIZE2", CxTargets(d, k), p)
                 \o <<Instr("TICK", <<>>, <<>>)>>
    IN  NoiseAfter("DEPOLARIZE1", QubitTargets(DataQubits(d)), p)
        \o h \o cx(1) \o cx(2) \o cx(3) \o cx(4) \o h
        \o NoiseAfter("X_ERROR", QubitTargets(MeasureQubits(d)), p)
        \o <<Instr("MR", <<>>, QubitTargets(MeasureQubits(d)))>>
        \o NoiseAfter("X_ERROR", QubitTargets(MeasureQubits(d)), p)

\* the detectors of the first round: each Z-type measure qubit on its own
HeadDetectors(d) ==
    LET zs == Ascending(ZMeasureQubits(d))
        nm == Cardinality(MeasureQubits(d))
    IN  [k \in 1..Len(zs) |->
            Instr("DETECTOR", CoordsOf(zs[k], d) \o <<0>>,
                  <<Rec(PositionIn(zs[k], MeasureQubits(d)) - nm - 1)>>)]

\* the detectors of a later round: each measure qubit against the round before
BodyDetectors(d) ==
    LET ms == Ascending(MeasureQubits(d))
        nm == Cardinality(MeasureQubits(d))
    IN  [k \in 1..Len(ms) |->
            Instr("DETECTOR", CoordsOf(ms[k], d) \o <<0>>,
                  <<Rec(k - nm - 1), Rec(k - 2 * nm - 1)>>)]

\* the detectors after the final data measurement: each Z-type measure qubit
\* against its data neighbours
TailDetectors(d) ==
    LET zs == Ascending(ZMeasureQubits(d))
        nm == Cardinality(MeasureQubits(d))
        nd == Cardinality(DataQubits(d))
        near(m) == {Neighbour(m, ZOrder[k], d) : k \in 1..4} \ {-1}
    IN  [k \in 1..Len(zs) |->
            Instr("DETECTOR", CoordsOf(zs[k], d) \o <<1>>,
                  [i \in 1..Cardinality(near(zs[k])) |->
                      Rec(PositionIn(Ascending(near(zs[k]))[i], DataQubits(d))
                          - nd - 1)]
                  \o <<Rec(PositionIn(zs[k], MeasureQubits(d)) - nm - nd - 1)>>)]

\* the logical observable: the data qubits of the first column
ObservableTargets(d) ==
    LET col == {QubitIndex(<<1, 2 * j + 1>>, d) : j \in 0..(d - 1)}
        nd == Cardinality(DataQubits(d))
    IN  [i \in 1..d |-> Rec(PositionIn(Ascending(col)[i], DataQubits(d)) - nd - 1)]

\* a block n times: nothing for n = 0, the block itself for n = 1
TimesBlock(body, n) ==
    IF n = 0 THEN <<>> ELSE IF n = 1 THEN body ELSE <<RepeatBlock(n, body)>>

\* the coordinate annotations of the qubits qs
QubitCoords(qs, d) ==
    [k \in DOMAIN qs |-> Instr("QUBIT_COORDS", CoordsOf(qs[k], d), <<Qubit(qs[k])>>)]

\* stim.Circuit.generated("surface_code:rotated_memory_z", distance = d,
\* rounds = rounds, <the four noise arguments> = p), for odd d >= 3, rounds >= 1
Generated(d, rounds, p) ==
    QubitCoords(Ascending(AllQubits(d)), d)
    \o <<Instr("R", <<>>, QubitTargets(DataQubits(d)))>>
    \o NoiseAfter("X_ERROR", QubitTargets(DataQubits(d)), p)
    \o <<Instr("R", <<>>, QubitTargets(MeasureQubits(d)))>>
    \o NoiseAfter("X_ERROR", QubitTargets(MeasureQubits(d)), p)
    \o <<Instr("TICK", <<>>, <<>>)>>
    \o Cycle(d, p)
    \o HeadDetectors(d)
    \o TimesBlock(<<Instr("TICK", <<>>, <<>>)>> \o Cycle(d, p)
              \o <<Instr("SHIFT_COORDS", <<0, 0, 1>>, <<>>)>>
              \o BodyDetectors(d), rounds - 1)
    \o NoiseAfter("X_ERROR", QubitTargets(DataQubits(d)), p)
    \o <<Instr("M", <<>>, QubitTargets(DataQubits(d)))>>
    \o TailDetectors(d)
    \o <<Instr("OBSERVABLE_INCLUDE", <<0>>, ObservableTargets(d))>>

\* circuit.flattened(): the REPEAT block unrolled and the coordinate shifts
\* folded into the detectors' coordinates
UnrolledAt(c, at, body, n) ==
    SubSeq(c, 1, at - 1)
    \o [i \in 1..(n * Len(body)) |-> body[((i - 1) % Len(body)) + 1]]
    \o SubSeq(c, at + 1, Len(c))

RepeatAt(c) == CHOOSE i \in DOMAIN c : c[i].name = "REPEAT"

Unrolled(c) ==
    IF \E i \in DOMAIN c : c[i].name = "REPEAT"
    THEN UnrolledAt(c, RepeatAt(c), c[RepeatAt(c)].body, c[RepeatAt(c)].args[1])
    ELSE c

ShiftsBefore(c, i) ==
    Cardinality({j \in 1..(i - 1) : c[j].name = "SHIFT_COORDS"})

WithShifts(c) ==
    [i \in DOMAIN c |->
        IF c[i].name = "DETECTOR"
        THEN [c[i] EXCEPT !.args = [@ EXCEPT ![3] = @ + ShiftsBefore(c, i)]]
        ELSE c[i]]

flattened(c) ==
    SelectSeq(WithShifts(Unrolled(c)), LAMBDA ins : ins.name # "SHIFT_COORDS")


-----------------------------------------------------------------------------
(* noise_models: generate_stress_circuit and generate_standard_circuit.    *)
(* Probabilities are exact: base_p in thousandths, drift_strength and      *)
(* burst_prob in hundredths.  p_now = base_p * (1 + drift_strength *       *)
(* sin(2 pi current_round / period)) is kept as its ingredients, with the  *)
(* angle as the fraction current_round / period of a turn.                 *)

MaxRounds == 3      \* largest explicit rounds argument
None == -1          \* rounds: Optional[int] = None

Distances == {3, 5}
BasePs == {1, 3}
DriftStrengths == {0, 20, 30}
BurstProbs == {0, 5}
RoundsArgs == {None} \cup 1..MaxRounds

\* rounds = d * 3 if rounds is None
RoundsOf(d, rounds) == IF rounds = None THEN d * 3 ELSE rounds

\* p_now at round current_round; period = rounds / 2.0, so the angle is
\* 2 * current_round / rounds turns
PNow(base_p, drift_strength, current_round, rounds) ==
    [base_p |-> base_p, drift_strength |-> drift_strength,
     turns |-> <<2 * current_round, rounds>>]

\* only the instructions that get noise are emitted
ReemitNoisedOnly(instruction, p_now) ==
    IF instruction.name \in {"R", "M", "MR"}
    THEN <<Instr(instruction.name, <<>>, instruction.targets),
           Instr("X_ERROR", <<p_now>>, instruction.targets)>>
    ELSE IF instruction.name \in {"CX", "CZ", "H", "S", "X", "Z", "Y"}
    THEN <<Instr(instruction.name, <<>>, instruction.targets),
           Instr(IF instruction.name \in {"CX", "CZ"}
                 THEN "DEPOLARIZE2" ELSE "DEPOLARIZE1",
                 <<p_now>>, instruction.targets)>>
    ELSE <<>>
\* what one pass of the loop body appends for an instruction other than TICK
Reemit(instruction, p_now) ==
    IF instruction.name \in {"R", "M", "MR"}
    THEN <<Instr(instruction.name, <<>>, instruction.targets),
           Instr("X_ERROR", <<p_now>>, instruction.targets)>>
    ELSE IF instruction.name \in {"CX", "CZ", "H", "S", "X", "Z", "Y"}
    THEN <<Instr(instruction.name, <<>>, instruction.targets),
           Instr(IF instruction.name \in {"CX", "CZ"}
                 THEN "DEPOLARIZE2" ELSE "DEPOLARIZE1",
                 <<p_now>>, instruction.targets)>>
    ELSE <<instruction>>

\* current_round when the loop reaches circuit[i]: the counter starts at 0
\* and goes up by one at every TICK met before
RoundAt(c, i) == Cardinality({j \in 1..(i - 1) : c[j].name = "TICK"})

\* the loop body with the noise appended before the instruction it belongs to
LoopBodyNoiseFirst(c, i, base_p, drift_strength, rounds) ==
    IF c[i].name = "TICK" THEN <<Instr("TICK", <<>>, <<>>)>>
    ELSE LET out == Reemit(c[i], PNow(base_p, drift_strength, RoundAt(c, i), rounds))
         IN  [k \in DOMAIN out |-> out[Len(out) + 1 - k]]

\* what the loop appends for circuit[i]
LoopBody(c, i, base_p, drift_strength, rounds) ==
    IF c[i].name = "TICK" THEN <<Instr("TICK", <<>>, <<>>)>>
    ELSE Reemit(c[i], PNow(base_p, drift_strength, RoundAt(c, i), rounds))

RECURSIVE Walk(_, _, _, _, _, _)
\* what the loop appends for circuit[lo..hi], in order (the range is split
\* in halves to keep the evaluation shallow)
Walk(c, lo, hi, base_p, drift_strength, rounds) ==
    IF lo > hi THEN <<>>
    ELSE IF lo = hi THEN LoopBody(c, lo, base_p, drift_strength, rounds)
    ELSE Walk(c, lo, (lo + hi) \div 2, base_p, drift_strength, rounds)
         \o Walk(c, (lo + hi) \div 2 + 1, hi, base_p, drift_strength, rounds)

\* new_circuit after the loop over the flattened base circuit c
Surgery(c, base_p, drift_strength, rounds) ==
    Walk(c, 1, Len(c), base_p, drift_strength, rounds)

\* middle_qubits = list(range(d * d // 2, d * d // 2 + d))
middle_qubits(d) == [k \in 1..d |-> (d * d) \div 2 + k - 1]

generate_stress_circuit(d, base_p, drift_strength, burst_prob, rounds) ==
    LET new_circuit == Surgery(flattened(Generated(d, RoundsOf(d, rounds), 0)),
                               base_p, drift_strength, RoundsOf(d, rounds))
    IN  IF burst_prob > 0
        THEN <<Instr("CORRELATED_ERROR", <<burst_prob>>,
                     [k \in 1..d |-> target_z(middle_qubits(d)[k])])>>
             \o new_circuit
        ELSE new_circuit

generate_standard_circuit(d, p, rounds) == Generated(d, RoundsOf(d, rounds), p)

\* num_detectors and num_observables of circuit.detector_error_model(): the
\* error model declares every detector and observable of the circuit
CircuitNumDetectors(c) ==
    Len(SelectSeq(flattened(c), LAMBDA ins : ins.name = "DETECTOR"))
ObservableIds(includes) == {includes[i].args[1] : i \in DOMAIN includes}
CircuitNumObservables(c) ==
    IF ObservableIds(SelectSeq(flattened(c),
                               LAMBDA ins : ins.name = "OBSERVABLE_INCLUDE")) = {}
    THEN 0
    ELSE Max(ObservableIds(SelectSeq(flattened(c),
                               LAMBDA ins : ins.name = "OBSERVABLE_INCLUDE"))) + 1

StressArgs ==
    [fn : {"stress"}, d : Distances, base_p : BasePs,
     drift_strength : DriftStrengths, burst_prob : BurstProbs,
     rounds : RoundsArgs]
StandardArgs ==
    [fn : {"standard"}, d : Distances, base_p : BasePs, drift_strength : {0},
     burst_prob : {0}, rounds : RoundsArgs]

\* circuit = generate_stress_circuit(d, base_p, drift_strength, burst_prob, rounds)
GenerateStressCircuit ==
    /\ args.fn = "stress"
    /\ circuit = <<>>
    /\ circuit' = generate_stress_circuit(args.d, args.base_p, args.drift_strength,
                                          args.burst_prob, args.rounds)
    /\ UNCHANGED <<dem, built, pc, variant, H, L, priors, latencies, solver,
                   oracle, lastOp, result, shotLog, calls, resets, current,
                   logRef, others, importVars, llrVars, args, returned>>

\* circuit = generate_standard_circuit(d, p, rounds)
GenerateStandardCircuit ==
    /\ args.fn = "standard"
    /\ circuit = <<>>
    /\ circuit' = generate_standard_circuit(args.d, args.base_p, args.rounds)
    /\ UNCHANGED <<dem, built, pc, variant, H, L, priors, latencies, solver,
                   oracle, lastOp, result, shotLog, calls, resets, current,
                   logRef, others, importVars, llrVars, args, returned>>

InitSynth ==
    /\ args \in StressArgs \cup StandardArgs
    /\ circuit = <<>>
    /\ returned = <<>>
    /\ dem = <<>>
    /\ built = NoResult
    /\ pc = "start"
    /\ DecoderIdle
    /\ ImportIdle
    /\ LlrIdle

NextSynth == GenerateStressCircuit \/ GenerateStandardCircuit

SpecSynth == InitSynth /\ [][NextSynth]_vars


-----------------------------------------------------------------------------
(* Properties of the circuit generators, checked under SpecSynth *)

\* the detector and observable annotations of a circuit together with its
\* measurement instructions, in circuit order
Skeleton(c) ==
    SelectSeq(c, LAMBDA ins :
                    ins.name \in {"DETECTOR", "OBSERVABLE_INCLUDE", "M", "MR"})

\* C20: the circuit generate_stress_circuit returns holds exactly the
\* detector and observable annotations of the flattened base circuit,
\* unchanged and in the same order relative to the measurements, so its
\* error model has the num_detectors and num_observables of the circuit
\* generate_standard_circuit returns for the same d and rounds, at any p.
Thm_C20_TopologyStable ==
    (args.fn = "stress" /\ circuit # <<>>) =>
        /\ Skeleton(circuit) =
              Skeleton(flattened(Generated(args.d, RoundsOf(args.d, args.rounds), 0)))
        /\ \A p \in BasePs :
              /\ CircuitNumDetectors(circuit) =
                    CircuitNumDetectors(
                        generate_standard_circuit(args.d, p, args.rounds))
              /\ CircuitNumObservables(circuit) =
                    CircuitNumObservables(
                        generate_standard_circuit(args.d, p, args.rounds))

\* a stress circuit with drift and a burst has been returned for d = 5 and
\* the default number of rounds; it has detectors and one observable
Wit_C20_TopologyStable ==
    /\ args.fn = "stress"
    /\ args.d = 5
    /\ args.base_p = 3
    /\ args.drift_strength = 30
    /\ args.burst_prob = 5
    /\ args.rounds = None
    /\ circuit # <<>>
    /\ circuit[1].name = "CORRELATED_ERROR"
    /\ CircuitNumDetectors(circuit) > 0
    /\ CircuitNumObservables(circuit) = 1


-----------------------------------------------------------------------------
(* noise_models: the task generators.  A task holds the circuit it was     *)
(* built with, its json_metadata and the error model derived from that     *)
(* circuit.  The generators of circuits are functions of their arguments,  *)
(* so a task's circuit is held as the call that made it.  Rates are in     *)
(* thousandths, drift strengths and burst probabilities in hundredths.     *)

MaxList == 2        \* longest list argument
MaxRepeats == 2     \* calls of one generator with the same arguments

\* an optional list argument: left out (None) or given
Omitted == [none |-> TRUE, val |-> <<>>]
Given(list) == [none |-> FALSE, val |-> list]
\* if x is None: x = default
OrDefault(x, default) == IF x.none THEN default ELSE x.val
\* a keyword argument with a default in the signature
OrSignature(x, default) == IF x = None THEN default ELSE x

ListsOver(S) == UNION {[1..n -> S] : n \in 0..MaxList}
OptionalLists(S) == {Omitted} \cup {Given(l) : l \in ListsOver(S)}

\* generate_stress_circuit(d, base_p=..., drift_strength=..., burst_prob=...)
StressCall(d, base_p, drift_strength, burst_prob) ==
    [fn |-> "stress", d |-> d, base_p |-> base_p,
     drift_strength |-> drift_strength, burst_prob |-> burst_prob,
     rounds |-> None]
\* generate_standard_circuit(d, p)
StandardCall(d, p) ==
    [fn |-> "standard", d |-> d, base_p |-> p, drift_strength |-> 0,
     burst_prob |-> 0, rounds |-> None]

\* sinter.Task(circuit=..., json_metadata=...,
\*             detector_error_model=circuit.detector_error_model(...))
Task(call, metadata) ==
    [circuit |-> call, json_metadata |-> metadata,
     detector_error_model |-> [of |-> call, decompose_errors |-> TRUE]]

\* the list of an earlier call, kept in the place of a new one
KeptTasks(earlier) == earlier
\* tasks = []
NewTasks(earlier) == <<>>

\* the loop of generate_undeniable_tasks appended to tasks
UndeniableLoop(tasks, distances, base_p, drift_strength, burst_prob) ==
    tasks \o
    [i \in DOMAIN distances |->
        Task(StressCall(distances[i], base_p, drift_strength, burst_prob),
             [d |-> distances[i], p |-> base_p, stress |-> "Drift+Burst",
              drift_strength |-> drift_strength, burst_prob |-> burst_prob])]

\* the nested loops with the two lists walked side by side
StandardLoopPaired(tasks, distances, error_rates) ==
    tasks \o
    [k \in 1..(Len(distances) * Len(error_rates)) |->
        LET d == distances[((k - 1) % Len(distances)) + 1]
            p == error_rates[((k - 1) % Len(error_rates)) + 1]
        IN  Task(StandardCall(d, p), [d |-> d, p |-> p, stress |-> "None"])]

\* the nested loops of generate_standard_tasks appended to tasks: the
\* distances outside, the error rates inside
StandardLoop(tasks, distances, error_rates) ==
    tasks \o
    [k \in 1..(Len(distances) * Len(error_rates)) |->
        LET d == distances[((k - 1) \div Len(error_rates)) + 1]
            p == error_rates[((k - 1) % Len(error_rates)) + 1]
        IN  Task(StandardCall(d, p), [d |-> d, p |-> p, stress |-> "None"])]

\* the loop with every task's metadata naming the last amplitude
SweepLoopLast(tasks, d, drift_strengths, base_p) ==
    tasks \o
    [i \in DOMAIN drift_strengths |->
        Task(StressCall(d, base_p, drift_strengths[i], 0),
             [d |-> d, p |-> base_p,
              stress |-> <<"Drift=", drift_strengths[Len(drift_strengths)]>>,
              drift_strength |-> drift_strengths[Len(drift_strengths)]])]

\* the loop of generate_sweep_tasks appended to tasks; the label is the
\* f-string "Drift={drift}"
SweepLoop(tasks, d, drift_strengths, base_p) ==
    tasks \o
    [i \in DOMAIN drift_strengths |->
        Task(StressCall(d, base_p, drift_strengths[i], 0),
             [d |-> d, p |-> base_p, stress |-> <<"Drift=", drift_strengths[i]>>,
              drift_strength |-> drift_strengths[i]])]

generate_undeniable_tasks(tasks, distances, base_p, drift_strength, burst_prob) ==
    UndeniableLoop(tasks, OrDefault(distances, <<5, 7, 9>>),
                   OrSignature(base_p, 3), OrSignature(drift_strength, 30),
                   OrSignature(burst_prob, 5))

generate_standard_tasks(tasks, distances, error_rates) ==
    StandardLoop(tasks, OrDefault(distances, <<3, 5, 7>>),
                 OrDefault(error_rates, <<1, 3, 5>>))

generate_sweep_tasks(tasks, d, drift_strengths, base_p) ==
    SweepLoop(tasks, d, OrDefault(drift_strengths, <<0, 10, 20, 30, 40>>),
              OrSignature(base_p, 3))

TaskDistances == {3, 5}
TaskRates == {1, 2}
TaskDrifts == {0, 30}

StandardTaskArgs ==
    [fn : {"standard_tasks"}, distances : OptionalLists(TaskDistances),
     error_rates : OptionalLists(TaskRates)]
UndeniableTaskArgs ==
    [fn : {"undeniable_tasks"}, distances : OptionalLists(TaskDistances),
     base_p : {None, 2}, drift_strength : {None, 25}, burst_prob : {None, 3}]
SweepTaskArgs ==
    [fn : {"sweep_tasks"}, d : TaskDistances,
     drift_strengths : OptionalLists(TaskDrifts), base_p : {None, 2}]

\* the list the last call returned, none before the first call
LastReturned == IF returned = <<>> THEN <<>> ELSE returned[Len(returned)]

TasksUnchanged ==
    UNCHANGED <<dem, built, pc, variant, H, L, priors, latencies, solver,
                oracle, lastOp, result, shotLog, calls, resets, current,
                logRef, others, importVars, llrVars, args, circuit>>

\* tasks = generate_standard_tasks(distances, error_rates)
GenerateStandardTasks ==
    /\ args.fn = "standard_tasks"
    /\ Len(returned) < MaxRepeats
    /\ returned' = Append(returned,
                      generate_standard_tasks(NewTasks(LastReturned),
                                              args.distances, args.error_rates))
    /\ TasksUnchanged

\* tasks = generate_undeniable_tasks(distances, base_p, drift_strength, burst_prob)
GenerateUndeniableTasks ==
    /\ args.fn = "undeniable_tasks"
    /\ Len(returned) < MaxRepeats
    /\ returned' = Append(returned,
                      generate_undeniable_tasks(NewTasks(LastReturned),
                                                args.distances, args.base_p,
                                                args.drift_strength,
                                                args.burst_prob))
    /\ TasksUnchanged

\* tasks = generate_sweep_tasks(d, drift_strengths, base_p)
GenerateSweepTasks ==
    /\ args.fn = "sweep_tasks"
    /\ Len(returned) < MaxRepeats
    /\ returned' = Append(returned,
                      generate_sweep_tasks(NewTasks(LastReturned), args.d,
                                           args.drift_strengths, args.base_p))
    /\ TasksUnchanged

InitTasks ==
    /\ args \in StandardTaskArgs \cup UndeniableTaskArgs \cup SweepTaskArgs
    /\ circuit = <<>>
    /\ returned = <<>>
    /\ dem = <<>>
    /\ built = NoResult
    /\ pc = "start"
    /\ DecoderIdle
    /\ ImportIdle
    /\ LlrIdle

NextTasks ==
    GenerateStandardTasks \/ GenerateUndeniableTasks \/ GenerateSweepTasks

SpecTasks == InitTasks /\ [][NextTasks]_vars


NoDuplicates(list) ==
    \A i, j \in DOMAIN list : list[i] = list[j] => i = j

\* the positions of a task list whose metadata names the pair (d, p)
PositionsOf(tasks, d, p) ==
    {k \in DOMAIN tasks :
        tasks[k].json_metadata.d = d /\ tasks[k].json_metadata.p = p}

\* C21: generate_standard_tasks(distances, error_rates) returns
\* |distances| * |error_rates| tasks, one for every pair (d, p) and, when
\* neither list repeats a value, each pair exactly once; every task's
\* metadata is exactly {d, p, stress: "None"} and its circuit is the
\* standard circuit of that d and p; with both arguments left out the
\* lists are [3, 5, 7] and [0.001, 0.003, 0.005], nine tasks.
Thm_C21_StandardGrid ==
    args.fn = "standard_tasks" =>
        \A r \in DOMAIN returned :
            LET tasks == returned[r]
                ds == IF args.distances.none THEN <<3, 5, 7>>
                      ELSE args.distances.val
                ps == IF args.error_rates.none THEN <<1, 3, 5>>
                      ELSE args.error_rates.val
            IN  /\ Len(tasks) = Len(ds) * Len(ps)
                /\ \A i \in DOMAIN ds : \A j \in DOMAIN ps :
                      /\ PositionsOf(tasks, ds[i], ps[j]) # {}
                      /\ NoDuplicates(ds) /\ NoDuplicates(ps) =>
                            Cardinality(PositionsOf(tasks, ds[i], ps[j])) = 1
                /\ \A k \in DOMAIN tasks :
                      /\ DOMAIN tasks[k].json_metadata = {"d", "p", "stress"}
                      /\ tasks[k].json_metadata.stress = "None"
                      /\ tasks[k].circuit.fn = "standard"
                      /\ tasks[k].circuit.d = tasks[k].json_metadata.d
                      /\ tasks[k].circuit.base_p = tasks[k].json_metadata.p
                      /\ tasks[k].detector_error_model.of = tasks[k].circuit
                /\ args.distances.none /\ args.error_rates.none =>
                      Len(tasks) = 9

\* a grid of two distances and two rates was generated
Wit_C21_StandardGrid ==
    /\ args.fn = "standard_tasks"
    /\ args.distances = Given(<<3, 5>>)
    /\ args.error_rates = Given(<<1, 2>>)
    /\ returned # <<>>
    /\ Len(returned[1]) = 4

\* the default grid of nine tasks was generated
Wit_C21_DefaultGrid ==
    /\ args.fn = "standard_tasks"
    /\ args.distances.none /\ args.error_rates.none
    /\ returned # <<>>
    /\ Len(returned[1]) = 9


\* C22: generate_sweep_tasks returns one task per drift amplitude, in
\* input order, whose drift_strength field is that amplitude;
\* generate_undeniable_tasks returns one task per distance, in input
\* order, whose d, p, drift_strength and burst_prob fields are the
\* arguments generate_stress_circuit was called with for that task; every
\* task of every generator has the fields d, p and stress.
Thm_C22_MetadataMatchesCall ==
    \A r \in DOMAIN returned :
        LET tasks == returned[r]
        IN  /\ args.fn = "sweep_tasks" =>
                LET drifts == IF args.drift_strengths.none
                              THEN <<0, 10, 20, 30, 40>>
                              ELSE args.drift_strengths.val
                IN  /\ Len(tasks) = Len(drifts)
                    /\ \A i \in DOMAIN tasks :
                          /\ tasks[i].json_metadata.drift_strength = drifts[i]
                          /\ tasks[i].circuit.fn = "stress"
                          /\ tasks[i].circuit.drift_strength = drifts[i]
                          /\ tasks[i].circuit.d = args.d
                          /\ tasks[i].json_metadata.d = args.d
                          /\ tasks[i].json_metadata.p = tasks[i].circuit.base_p
            /\ args.fn = "undeniable_tasks" =>
                LET ds == IF args.distances.none THEN <<5, 7, 9>>
                          ELSE args.distances.val
                IN  /\ Len(tasks) = Len(ds)
                    /\ \A i \in DOMAIN tasks :
                          LET md == tasks[i].json_metadata
                              call == tasks[i].circuit
                          IN  /\ md.d = ds[i]
                              /\ call.fn = "stress"
                              /\ md.d = call.d
                              /\ md.p = call.base_p
                              /\ md.drift_strength = call.drift_strength
                              /\ md.burst_prob = call.burst_prob
                              /\ args.base_p # None => md.p = args.base_p
                              /\ args.drift_strength # None =>
                                    md.drift_strength = args.drift_strength
                              /\ args.burst_prob # None =>
                                    md.burst_prob = args.burst_prob
            /\ \A i \in DOMAIN tasks :
                  {"d", "p", "stress"} \subseteq DOMAIN tasks[i].json_metadata

\* a sweep over two different amplitudes was generated
Wit_C22_MetadataMatchesCall ==
    /\ args.fn = "sweep_tasks"
    /\ args.drift_strengths = Given(<<30, 0>>)
    /\ returned # <<>>
    /\ returned[1][1].json_metadata.drift_strength = 30
    /\ returned[1][2].json_metadata.drift_strength = 0

\* stress tasks for two distances were generated with given noise arguments
Wit_C22_Undeniable ==
    /\ args.fn = "undeniable_tasks"
    /\ args.distances = Given(<<5, 3>>)
    /\ args.base_p = 2 /\ args.drift_strength = 25 /\ args.burst_prob = 3
    /\ returned # <<>>
    /\ returned[1][2].json_metadata =
          [d |-> 3, p |-> 2, stress |-> "Drift+Burst", drift_strength |-> 25,
           burst_prob |-> 3]


\* C23: calling a task generator twice with identical arguments, omitted
\* ones included, returns lists of the same length with identical metadata
\* at every position.
Thm_C23_Deterministic ==
    \A r, s \in DOMAIN returned :
        /\ Len(returned[r]) = Len(returned[s])
        /\ \A i \in DOMAIN returned[r] :
              returned[r][i].json_metadata = returned[s][i].json_metadata

\* a generator was called twice with its list argument left out
Wit_C23_Deterministic ==
    /\ Len(returned) = 2
    /\ args.fn = "undeniable_tasks"
    /\ args.distances.none
    /\ Len(returned[2]) = 3


\* what the instance answers for the syndrome s when nothing was decoded
\* before: the solver's answer for the defects of s alone, read as the
\* operation op returns it
FreshAnswer(op, s) ==
    IF variant = "UF"
    THEN ReadObservables(SolverAnswer(oracle, Support(s), NumObservables(dem)),
                         NumObservables(dem))
    ELSE IF op = "decode" THEN SolverAnswer(oracle, Support(s), H.shape[2])
    ELSE LogicalOf(SolverAnswer(oracle, Support(s), H.shape[2]))

\* C24: the result of decoding a syndrome does not depend on the syndromes
\* decoded before it: every shot of every operation is answered as a fresh
\* instance would answer it; the union-find solver, once created, holds
\* after a decode exactly the indices of the triggered bits of the syndrome
\* decoded last, whatever was decoded earlier.
Thm_C24_ShotsIndependent ==
    /\ \A k \in DOMAIN shotLog :
          shotLog[k].correction = FreshAnswer(lastOp.op, shotLog[k].syndrome)
    /\ variant = "UF" /\ shotLog # <<>> =>
          /\ solver.created
          /\ solver.defects = Support(shotLog[Len(shotLog)].syndrome)
    /\ variant = "UF" /\ ~solver.created => latencies = <<>> /\ solver.defects = {}

\* a union-find decoder decoded a quiet syndrome after one with defects
Wit_C24_ShotsIndependent ==
    /\ variant = "UF"
    /\ Len(latencies) = 2
    /\ lastOp.op = "decode"
    /\ result.kind = "ok"
    /\ Support(lastOp.syndrome) = {}
    /\ {} \notin DOMAIN oracle
    /\ DOMAIN oracle # {}
    /\ solver.defects = {}


NoiseNames == {"X_ERROR", "DEPOLARIZE1", "DEPOLARIZE2"}

\* the noise instruction the loop puts after an instruction of this name,
\* "" for none
NoiseFor(name) ==
    IF name \in {"R", "M", "MR"} THEN "X_ERROR"
    ELSE IF name \in {"CX", "CZ"} THEN "DEPOLARIZE2"
    ELSE IF name \in {"H", "S", "X", "Z", "Y"} THEN "DEPOLARIZE1"
    ELSE ""

\* the circuit without a burst instruction at its head
WithoutBurst(c) ==
    IF c # <<>> /\ c[1].name = "CORRELATED_ERROR" THEN SubSeq(c, 2, Len(c)) ELSE c

\* out is the base circuit with, after every instruction that takes noise
\* and nowhere else, the noise of its kind on the same targets at the p_now
\* of the TICKs passed so far (ticks: the positions of the TICKs of out)
ReemittedWithNoise(out, base, ticks, base_p, drift_strength, rounds) ==
    /\ SelectSeq(out, LAMBDA ins : ins.name \notin NoiseNames) = base
    /\ \A i \in DOMAIN out :
          IF out[i].name \in NoiseNames
          THEN /\ i > 1
               /\ NoiseFor(out[i - 1].name) = out[i].name
               /\ out[i].targets = out[i - 1].targets
               /\ out[i].args =
                     <<PNow(base_p, drift_strength,
                            Cardinality({t \in ticks : t < i}), rounds)>>
          ELSE NoiseFor(out[i].name) # "" =>
                  i < Len(out) /\ out[i + 1].name = NoiseFor(out[i].name)

TickPositions(c) == {i \in DOMAIN c : c[i].name = "TICK"}

\* C25: generate_stress_circuit re-emits every instruction of the flattened
\* base circuit once and in order; each R, M, MR is immediately followed by
\* X_ERROR, each CX, CZ by DEPOLARIZE2 and each H, S, X, Z, Y by DEPOLARIZE1
\* on the same targets with the current p_now; nothing else gets noise, so
\* the output without its noise instructions is the base circuit.
Thm_C25_Reemitted ==
    args.fn = "stress" /\ circuit # <<>> =>
        ReemittedWithNoise(WithoutBurst(circuit),
                           flattened(Generated(args.d, RoundsOf(args.d, args.rounds), 0)),
                           TickPositions(WithoutBurst(circuit)),
                           args.base_p, args.drift_strength,
                           RoundsOf(args.d, args.rounds))

\* a stress circuit was generated whose noise rates differ between rounds
Wit_C25_Reemitted ==
    /\ args.fn = "stress"
    /\ args.drift_strength > 0
    /\ circuit # <<>>
    /\ \E i, j \in DOMAIN circuit :
          /\ circuit[i].name = "X_ERROR"
          /\ circuit[j].name = "DEPOLARIZE2"
          /\ circuit[i].args # circuit[j].args


\* current_round as the p_now of a noise instruction records it
RoundIn(p_now) == p_now.turns[1] \div 2

\* the values current_round had when noise was appended to the circuit c
RoundsSeen(c) ==
    {RoundIn(c[i].args[1]) : i \in {j \in DOMAIN c : c[j].name \in NoiseNames}}

\* C26: the round counter of generate_stress_circuit goes up once per
\* round of the code, so over a run of rounds rounds it stays between 0 and
\* rounds, and the drift angle 2 pi current_round / (rounds / 2) completes
\* two full turns over the run.
CE_C26_RoundCounter ==
    args.fn = "stress" /\ circuit # <<>> =>
        \A r \in RoundsSeen(circuit) :
            /\ 0 <= r
            /\ r <= RoundsOf(args.d, args.rounds)

\* the counter at the final measurement of a run of one round
Wit_C26_SevenLayers ==
    /\ args.fn = "stress"
    /\ args.rounds = 1
    /\ circuit # <<>>
    /\ Max(RoundsSeen(circuit)) = 7


Min(S) == CHOOSE x \in S : \A y \in S : x <= y

\* the positions of the correlated-error instructions of a circuit
BurstPositions(c) == {i \in DOMAIN c : c[i].name = "CORRELATED_ERROR"}

\* the qubit indices a burst instruction acts on
BurstQubits(burst) == {burst.targets[k].v : k \in DOMAIN burst.targets}

\* the returned circuit is the circuit for burst_prob = 0, with one
\* correlated error of probability burst_prob on d consecutive qubit
\* indices put before it exactly when burst_prob > 0
BurstPrepended(c, d, burst_prob, quiet) ==
    /\ (burst_prob > 0) = (BurstPositions(c) # {})
    /\ burst_prob > 0 =>
          /\ BurstPositions(c) = {1}
          /\ c[1].args = <<burst_prob>>
          /\ Len(c[1].targets) = d
          /\ Cardinality(BurstQubits(c[1])) = d
          /\ BurstQubits(c[1]) = Min(BurstQubits(c[1]))..Max(BurstQubits(c[1]))
    /\ WithoutBurst(c) = quiet

\* a window of indices centred on the middle of a set of indices: the two
\* are as far from each other at the low end as at the high end, within the
\* one that an even length shifts
CentredOn(window, range) ==
    (Min(window) + Max(window)) - (Min(range) + Max(range)) \in {-1, 0, 1}

\* the burst is put in front as the circuit's other instructions are kept
Thm_C27_BurstPrepended ==
    args.fn = "stress" /\ circuit # <<>> =>
        BurstPrepended(circuit, args.d, args.burst_prob,
                       generate_stress_circuit(args.d, args.base_p,
                                               args.drift_strength, 0, args.rounds))

\* C27: exactly when burst_prob > 0 one correlated error of probability
\* burst_prob is the first instruction of the circuit generate_stress_circuit
\* returns; its targets are a window of d consecutive qubit indices centred
\* at the middle of the range of the data qubits' indices; with
\* burst_prob = 0 there is no correlated error; the rest of the circuit is
\* the same in both cases.
CE_C27_BurstWindow ==
    args.fn = "stress" /\ circuit # <<>> =>
        /\ BurstPrepended(circuit, args.d, args.burst_prob,
                          generate_stress_circuit(args.d, args.base_p,
                                                  args.drift_strength, 0,
                                                  args.rounds))
        /\ args.burst_prob > 0 =>
              CentredOn(BurstQubits(circuit[1]), DataQubits(args.d))

\* the burst of a distance 3 circuit: qubits 4, 5, 6, of which only 5 is a
\* qubit of the code, whose data qubits have the indices 1 to 19
Wit_C27_Window ==
    /\ args.fn = "stress" /\ args.d = 3 /\ args.burst_prob > 0
    /\ circuit # <<>>
    /\ BurstQubits(circuit[1]) = {4, 5, 6}
    /\ BurstQubits(circuit[1]) \cap AllQubits(3) = {5}
    /\ Min(DataQubits(3)) = 1 /\ Max(DataQubits(3)) = 19


\* the positions after the first instruction where the circuit c operates
\* on the qubit q (coordinate annotations operate on nothing)
UsesOf(c, q) ==
    {i \in 2..Len(c) :
        /\ c[i].name # "QUBIT_COORDS"
        /\ \E k \in DOMAIN c[i].targets : c[i].targets[k] = Qubit(q)}

\* C28: in the circuit generate_stress_circuit returns for burst_prob > 0
\* the burst comes after the initial resets: no qubit of the burst is
\* reset after the burst before a gate or a measurement acts on it.
CE_C28_BurstNotErased ==
    args.fn = "stress" /\ circuit # <<>> /\ args.burst_prob > 0 =>
        \A q \in BurstQubits(circuit[1]) :
            UsesOf(circuit, q) # {} => circuit[Min(UsesOf(circuit, q))].name # "R"

\* every qubit of the burst that the circuit uses is reset right after it
Wit_C28_BurstErased ==
    /\ args.fn = "stress" /\ args.burst_prob > 0
    /\ circuit # <<>>
    /\ circuit[1].name = "CORRELATED_ERROR"
    /\ \E q \in BurstQubits(circuit[1]) : UsesOf(circuit, q) # {}
    /\ \A q \in BurstQubits(circuit[1]) :
          UsesOf(circuit, q) # {} => circuit[Min(UsesOf(circuit, q))].name = "R"


-----------------------------------------------------------------------------
(* One decoder instance whose external solver may raise an error of its   *)
(* own on any solve with at least one defect.                             *)

FaultyDems ==
    { <<ErrorInstr(1, <<D(0), Lo(0)>>),
        ErrorInstr(4, <<D(0), Lo(0), Sep, D(1), Lo(0)>>)>> }

InitFaulty ==
    /\ dem \in FaultyDems
    /\ variant \in Variants
    /\ built = NoResult
    /\ pc = "faulty"
    /\ H = IF variant = "MP" THEN dem_to_matrices(dem).H ELSE NoMatrix
    /\ L = IF variant = "MP" THEN dem_to_matrices(dem).L ELSE NoMatrix
    /\ priors = IF variant = "MP" THEN dem_to_matrices(dem).priors ELSE <<>>
    /\ latencies = <<>>
    /\ solver = [created |-> FALSE, defects |-> {}]
    /\ oracle = <<>>
    /\ lastOp = NoOp
    /\ result = NoOutcome
    /\ shotLog = <<>>
    /\ calls = 0
    /\ resets = 0
    /\ current = 1
    /\ logRef = 1
    /\ others = <<>>
    /\ ImportIdle
    /\ LlrIdle
    /\ SynthIdle

NextFaulty ==
    \/ \E s \in SyndromeInputs : Decode(s)
    \/ \E s \in SyndromeInputs : GetLogicalCorrection(s)
    \/ \E data \in PackedInputs : DecodeShotsBitPacked(data)

SpecFaulty == InitFaulty /\ [][NextFaulty]_vars

\* the rows of a packed input as the batch loop decodes them
ShotsOf(data) ==
    [i \in 1..data.shape[1] |-> UnpackBits(data.rows[i], NumDetectors(dem))]

\* a step of a single-shot operation that ended in an error
SingleShotFailed ==
    /\ lastOp'.op \in {"decode", "get_logical_correction"}
    /\ result'.kind = "error"

\* a step of a batch that ended in an error
BatchFailed == lastOp'.op = "batch" /\ result'.kind = "error"

\* C29: a single-shot decode in which the solver raises appends no latency
\* entry; a batch that fails at row k (counted from 0) returns no packed
\* output and raises the solver's error, and the latency log has grown by
\* exactly k entries, those of the rows decoded before.
Thm_C29_FailureLeavesNoEntry ==
    [][/\ SingleShotFailed => latencies' = latencies
       /\ BatchFailed =>
             /\ result'.packed = NoPacked
             /\ result'.error = "SolverError"
             /\ Len(shotLog') < lastOp'.data.shape[1]
             /\ Len(latencies') = Len(latencies) + Len(shotLog')
             /\ SubSeq(latencies', 1, Len(latencies)) = latencies
             /\ \A k \in DOMAIN shotLog' :
                   shotLog'[k].syndrome = ShotsOf(lastOp'.data)[k]
             /\ oracle'[Support(ShotsOf(lastOp'.data)[Len(shotLog') + 1])] = Failure
      ]_vars

\* a batch of two rows failed at its second row, one entry logged
Wit_C29_FailureLeavesNoEntry ==
    /\ pc = "faulty"
    /\ lastOp.op = "batch"
    /\ lastOp.data.shape[1] = 2
    /\ result.kind = "error"
    /\ Len(shotLog) = 1
    /\ Len(latencies) = 1

\* a single-shot decode failed in the solver after an earlier one succeeded
Wit_C29_SingleShot ==
    /\ pc = "faulty"
    /\ lastOp.op = "decode"
    /\ result.kind = "error"
    /\ result.error = "SolverError"
    /\ Len(latencies) = 1


-----------------------------------------------------------------------------
(* Properties of the package's own imports, under SpecImport *)

\* the names the package's __init__ imports from its submodules that the
\* submodule does not define
Undefined ==
    UNION {Body("asr_mp")[i].names \ Defines(Body("asr_mp")[i].from) :
              i \in {j \in DOMAIN Body("asr_mp") : Body("asr_mp")[j].kind = "sub"}}

\* C30: every name the package's __init__ imports and re-exports is defined
\* by the module it is imported from, so with every external library
\* installed importing a decoder through the package never fails.
CE_C30_PackageImports ==
    /\ Undefined = {}
    /\ installed = Libs =>
          \A v \in Variants :
              attempt[v].stage # "none" => attempt[v].stage = "instance"

\* with every library installed the import of the package stopped at a
\* name noise_models does not define
Wit_C30_MissingName ==
    /\ installed = Libs
    /\ attempt["MP"].stage = "import"
    /\ attempt["MP"].missing \in {"generate_leakage_circuit", "generate_leakage_tasks"}
    /\ Undefined = {"generate_leakage_circuit", "generate_leakage_tasks"}

=============================================================================
